---- MODULE Spec2Model ----
(***************************************************************************)
(* pyghusk: a linear pipeline that scaffolds a project folder, provisions  *)
(* a pipenv environment, initialises git, creates a GitHub repository,     *)
(* pushes to it and optionally enables GitHub pages.                       *)
(*                                                                         *)
(* The repository holds the pipeline twice: inline in main() of            *)
(* pyghusk.py ("script") and as one function per step in helpers.py and    *)
(* actions.py ("modules").  Both are modelled; impl says which one a run   *)
(* uses.  The modules are called in the order of main() of pyghusk.py.     *)
(*                                                                         *)
(* Text that the code inspects character by character (names, licenses,    *)
(* the confirmation answer) is a sequence of one-character strings.        *)
(***************************************************************************)
EXTENDS Integers, Sequences, FiniteSets

\* ------------------------------------------------------------------------
\* Bounds of the model
\* ------------------------------------------------------------------------

\* how many entries in a row a prompt loop (name, license, password) may reject
MaxRejects == 1

\* the longest string validate_name is tried on
MaxNameLen == 3

\* how many times in a row validate_name is applied to its own result
MaxCalls == 2

\* runs of the program in one project folder
MaxRuns == 2

\* ------------------------------------------------------------------------
\* Characters and strings
\* ------------------------------------------------------------------------

LowerLetters == <<"a","b","c","d","e","f","g","h","i","j","k","l","m",
                  "n","o","p","q","r","s","t","u","v","w","x","y","z">>
UpperLetters == <<"A","B","C","D","E","F","G","H","I","J","K","L","M",
                  "N","O","P","Q","R","S","T","U","V","W","X","Y","Z">>
Digits == {"0","1","2","3","4","5","6","7","8","9"}

IsUpper(c) == \E i \in 1..26 : UpperLetters[i] = c
IsLower(c) == \E i \in 1..26 : LowerLetters[i] = c

\* str.swapcase() on one character
SwapCaseChar(c) ==
    IF IsUpper(c) THEN LowerLetters[CHOOSE i \in 1..26 : UpperLetters[i] = c]
    ELSE IF IsLower(c) THEN UpperLetters[CHOOSE i \in 1..26 : LowerLetters[i] = c]
    ELSE c

\* str.lower() on one character
LowerChar(c) ==
    IF IsUpper(c) THEN LowerLetters[CHOOSE i \in 1..26 : UpperLetters[i] = c]
    ELSE c

\* str.upper() on one character
UpperChar(c) ==
    IF IsLower(c) THEN UpperLetters[CHOOSE i \in 1..26 : LowerLetters[i] = c]
    ELSE c

\* str.lower()
Lower(s) == [i \in 1..Len(s) |-> LowerChar(s[i])]

\* str.upper()
Upper(s) == [i \in 1..Len(s) |-> UpperChar(s[i])]

\* unicodedata.normalize("NFKD", c).encode("ascii", "ignore").decode() on one
\* character: an accented letter keeps its base letter, any other non-ascii
\* character disappears
AsciiFold(c) ==
    CASE c = "é" -> <<"e">>
      [] c = "à" -> <<"a">>
      [] c = "ß" -> <<>>
      [] OTHER   -> <<c>>

RECURSIVE AsciiIgnore(_)
AsciiIgnore(s) ==
    IF s = <<>> THEN <<>> ELSE AsciiFold(Head(s)) \o AsciiIgnore(Tail(s))

\* \w under re.ASCII
IsWordChar(c) == IsUpper(c) \/ IsLower(c) \/ c \in Digits \/ c = "_"

\* re.sub(r"[^\w]", " ", s, flags=re.ASCII)
SubNonWord(s) == [i \in 1..Len(s) |-> IF IsWordChar(s[i]) THEN s[i] ELSE " "]

\* str.split(): the maximal runs of non-space characters
RECURSIVE SplitWords(_, _)
SplitWords(s, cur) ==
    IF s = <<>> THEN (IF cur = <<>> THEN <<>> ELSE <<cur>>)
    ELSE IF Head(s) = " "
         THEN (IF cur = <<>> THEN <<>> ELSE <<cur>>) \o SplitWords(Tail(s), <<>>)
         ELSE SplitWords(Tail(s), Append(cur, Head(s)))

\* "-".join(words)
RECURSIVE JoinHyphen(_)
JoinHyphen(ws) ==
    IF ws = <<>> THEN <<>>
    ELSE IF Len(ws) = 1 THEN ws[1]
    ELSE ws[1] \o <<"-">> \o JoinHyphen(Tail(ws))

validate_name(name) ==
    LET normalized_name == AsciiIgnore(name)
        clean_name      == SubNonWord(normalized_name)
        split_name      == JoinHyphen(SplitWords(clean_name, <<>>))
    IN  Lower(split_name)

\* a test that lets every string through
AnyText(repo_name) == TRUE

\* "if repo_name:" on a str: true unless the string is empty
NonEmpty(repo_name) == repo_name # <<>>

\* ------------------------------------------------------------------------
\* Licenses, templates and file contents
\* ------------------------------------------------------------------------

MIT       == <<"M","I","T">>
Unlicense == <<"U","n","l","i","c","e","n","s","e">>
UNLICENSE == <<"U","N","L","I","C","E","N","S","E">>

NoText == <<>>

\* the file name a license is stored under in its template folder: the rule
\* of the setup utility
LicenseFileName(name) == IF Upper(name) = UNLICENSE THEN "UNLICENSE" ELSE "LICENSE"

\* The template directory ~/.config/pyghusk/templates as the setup utility
\* leaves it (an empty docs folder, .gitignore, one folder per license), with
\* the UNLICENSE folder the documentation of pyghusk.py asks for.
TemplatesComplete ==
    [exists |-> TRUE, licenses |-> TRUE, docs |-> TRUE, ignore |-> TRUE,
     catalog |-> {MIT, Unlicense, UNLICENSE}]

\* Template directories that miss a part.
TemplatesBroken ==
    { [exists |-> FALSE, licenses |-> FALSE, docs |-> FALSE, ignore |-> FALSE,
       catalog |-> {}],
      [exists |-> TRUE, licenses |-> FALSE, docs |-> TRUE, ignore |-> TRUE,
       catalog |-> {}],
      [exists |-> TRUE, licenses |-> TRUE, docs |-> FALSE, ignore |-> TRUE,
       catalog |-> {MIT}],
      [exists |-> TRUE, licenses |-> TRUE, docs |-> TRUE, ignore |-> FALSE,
       catalog |-> {MIT}] }

\* A file content.  kind says where the text comes from; the other fields are
\* the values the text is built from.
Content(kind, name, desc, lic) ==
    [kind |-> kind, name |-> name, desc |-> desc, lic |-> lic]

Absent      == Content("absent", NoText, "", NoText)
\* what the user had put in file f before the run
UserContent(f) == Content("user", NoText, f, NoText)

\* TEMPLATE_DIR / ".gitignore"
TemplateIgnore == Content("template .gitignore", NoText, "", NoText)

\* TEMPLATE_DIR / licenses / <lic> / <file>
TemplateLicense(lic) == Content("template license", NoText, "", lic)

FileNames == {"readme.md", ".gitignore", "LICENSE", "UNLICENSE",
              "docs/index.md", "docs/_config.yml", ".vscode/settings.json"}

DirNames == {"docs", ".vscode"}

\* Project folders a run can start in: any of readme.md, the two copied
\* files, the docs folder with or without its files, the .vscode folder.
NoFiles == [f \in FileNames |-> Absent]

StartFiles ==
    { [f \in FileNames |->
          IF \/ f = "readme.md" /\ r
             \/ f \in {".gitignore", "LICENSE", "UNLICENSE"} /\ c
             \/ f = "docs/index.md" /\ d \in {"index", "both"}
             \/ f = "docs/_config.yml" /\ d = "both"
             \/ f = ".vscode/settings.json" /\ v
          THEN UserContent(f) ELSE Absent]
      : r \in BOOLEAN, c \in BOOLEAN, v \in BOOLEAN,
        d \in {"none", "index", "both"} }

\* the folders that go with the files, plus possibly an empty docs folder
StartDirs(fs) ==
    { ds \in SUBSET DirNames :
        /\ (fs["docs/index.md"] # Absent) => "docs" \in ds
        /\ (".vscode" \in ds) <=> (fs[".vscode/settings.json"] # Absent) }

\* ------------------------------------------------------------------------
\* Inputs
\* ------------------------------------------------------------------------

\* names given with --name or typed at the prompt
NameInputs == { <<>>, <<" ">>, <<"!">>, <<"A"," ","b">> }

\* validate_name applied to each name the run can be given: what the name
\* stage stores for it
validated_name == [name \in NameInputs |-> validate_name(name)]

\* descriptions given with --description ("": not given)
DescriptionArgs == { "", "demo" }

\* descriptions typed at the prompt
DescriptionInputs == { "demo" }

\* texts typed at the license prompt
LicenseInputs == { MIT, Unlicense, UNLICENSE, Lower(MIT), <<"G","P","L">> }

\* answers typed at the confirmation prompt
AnswerInputs == { <<>>, <<"n">>, <<"y">>, <<"Y","e","s">>, <<"y","y">>,
                  <<"n","o">> }

\* how an external command ends
ProcessResults == {"ok", "OSError", "CalledProcessError"}

\* ------------------------------------------------------------------------
\* State
\* ------------------------------------------------------------------------

VARIABLES
    impl,              \* "script": main() of pyghusk.py; "modules": helpers.py and actions.py
    USERNAME,          \* the configured GitHub username, "None" when not configured
    GH_PAGES,          \* the pages toggle
    tpl,               \* the template directory
    folder_exists,     \* whether the project folder (--folder or the cwd) exists
    files0,            \* the files of the project folder when the run started
    dirs0,             \* its sub-folders when the run started
    run,               \* the number of the run in this project folder
    files,             \* the files of the project folder: name -> content
    dirs,              \* the sub-folders of the project folder
    pc,                \* the position of the run in main()
    logging_on,        \* whether logging was started
    repo_name,         \* the validated repository name
    repo_description,
    project_license,
    answer,            \* what was typed at the confirmation prompt
    rejects,           \* entries rejected by the prompt loop the run is in
    interpreter,       \* the interpreter path got from pipenv
    git,               \* the local repository
    headers,           \* the http headers mapping
    repo_final_name,   \* the full name returned by the creation request
    requests,          \* the http requests sent, in order
    remote_repo,       \* the repository the final summary names
    server_repo,       \* the full name of the repository the server created
    last_response,     \* the last http response received
    ran,               \* the pipeline steps started, in order
    failed,            \* the step that failed, "none" when none did
    term,              \* how the process ended: "running", "exit", "exception", "return"
    exitStatus,        \* the exit status of the process, -1 while it runs
    log,               \* the entries handed to logging by the last statements
    out,               \* the lines printed by the last statements
    name_arg,          \* the string validate_name is tried on
    name_results,      \* what validate_name returned, call after call
    setup,             \* the licenses create_templates.py fetched and has to store
    tokens             \* the system keyring, as manage_tokens.py and build_headers see it

env    == <<impl, USERNAME, GH_PAGES, tpl, folder_exists, files0, dirs0, run>>
inputs == <<repo_name, repo_description, project_license, answer>>
disk   == <<files, dirs>>
world  == <<interpreter, git, headers, repo_final_name, requests, remote_repo,
            server_repo, last_response>>
pure   == <<name_arg, name_results, setup, tokens>>
vars   == <<env, inputs, disk, world, pc, logging_on, rejects, ran, failed,
            term, exitStatus, log, out, pure>>

None == "None"

\* tree: the files of the last commit
NoGit == [init |-> FALSE, staged |-> FALSE, commits |-> 0, origin |-> NoText,
          pushed |-> FALSE, tree |-> NoFiles]

\* no response received yet
NoResponse == [status |-> 0, body |-> "none"]

\* create_templates.py not run: no license list fetched
NoSetup == [fresh |-> FALSE, fetched |-> FALSE, licenses |-> <<>>, todo |-> <<>>]

\* no keyring looked at
NoTokens == [backend |-> FALSE, ring |-> <<>>, held |-> <<>>, last |-> <<>>]

NoHeaders == [agent |-> None, scheme |-> None, credential |-> <<>>, accept |-> None]

Init ==
    /\ impl \in {"script", "modules"}
    /\ \/ \* a configured installation, any project folder
          /\ USERNAME = "user"
          /\ GH_PAGES \in BOOLEAN
          /\ tpl = TemplatesComplete
          /\ folder_exists = TRUE
          /\ files0 \in StartFiles
          /\ dirs0 \in StartDirs(files0)
       \/ \* an installation that misses something, an empty project folder
          /\ USERNAME \in (IF impl = "script" THEN {None, "user"} ELSE {"user"})
          /\ GH_PAGES = TRUE
          /\ tpl \in TemplatesBroken \cup {TemplatesComplete}
          /\ folder_exists \in BOOLEAN
          /\ files0 = NoFiles
          /\ dirs0 = {}
    /\ files = files0
    /\ dirs = dirs0
    /\ run = 1
    /\ pc = "import"
    /\ logging_on = FALSE
    /\ repo_name = NoText
    /\ repo_description = None
    /\ project_license = NoText
    /\ answer = <<None>>
    /\ rejects = 0
    /\ interpreter = NoText
    /\ git = NoGit
    /\ headers = NoHeaders
    /\ repo_final_name = NoText
    /\ requests = <<>>
    /\ remote_repo = NoText
    /\ server_repo = NoText
    /\ last_response = NoResponse
    /\ ran = <<>>
    /\ failed = "none"
    /\ term = "running"
    /\ exitStatus = -1
    /\ log = {}
    /\ out = {}
    /\ name_arg = NoText
    /\ name_results = <<>>
    /\ setup = NoSetup
    /\ tokens = NoTokens

\* ------------------------------------------------------------------------
\* How a run goes on or ends
\* ------------------------------------------------------------------------

\* go on with the next statement of main()
Goto(next) ==
    /\ pc' = next
    /\ UNCHANGED <<term, exitStatus>>

\* exit(): SystemExit with no code, the process ends with status 0
exit ==
    /\ pc' = "end"
    /\ term' = "exit"
    /\ exitStatus' = 0

\* an exception nobody catches: traceback, the process ends with status 1
Uncaught ==
    /\ pc' = "end"
    /\ term' = "exception"
    /\ exitStatus' = 1

\* main() returns: the process ends with status 0
Return ==
    /\ pc' = "end"
    /\ term' = "return"
    /\ exitStatus' = 0

\* log and out hold what the statements just executed wrote
Logged(entries) == log' = entries
Printed(lines)  == out' = lines

\* ------------------------------------------------------------------------
\* Collecting input: main() of pyghusk.py
\* ------------------------------------------------------------------------

\* the license catalog: the folder names under templates/licenses, read when
\* the module is imported
LICENSES == tpl.catalog

\* what the input stage leaves alone
InputFrame == UNCHANGED <<env, disk, world, ran, failed, pure>>

\* module level of pyghusk.py: iterdir() on a missing licenses folder raises
import_pyghusk ==
    /\ pc = "import" /\ impl = "script"
    /\ IF tpl.licenses
       THEN Goto("trap") /\ Printed({})
       ELSE Uncaught /\ Printed({"Traceback: FileNotFoundError"})
    /\ UNCHANGED <<inputs, rejects, logging_on>> /\ Logged({})
    /\ InputFrame

\* main() without the trap
main_trap_skipped ==
    /\ pc = "trap"
    /\ Goto("logging") /\ Printed({})
    /\ UNCHANGED <<inputs, rejects, logging_on>> /\ Logged({})
    /\ InputFrame

\* the TL;DR trap
main_trap ==
    /\ pc = "trap"
    /\ IF USERNAME = None
       THEN exit /\ Printed({"Before using the script, please configure"})
       ELSE Goto("logging") /\ Printed({})
    /\ UNCHANGED <<inputs, rejects, logging_on>> /\ Logged({})
    /\ InputFrame

main_logging ==
    /\ pc = "logging" /\ impl = "script"
    /\ logging_on' = TRUE
    /\ Goto("folder")
    /\ UNCHANGED <<inputs, rejects>> /\ Logged({}) /\ Printed({})
    /\ InputFrame

main_folder ==
    /\ pc = "folder" /\ impl = "script"
    /\ IF folder_exists
       THEN /\ Goto("template")
            /\ Logged({"INFO: Local project directory will be"})
            /\ Printed({})
       ELSE /\ exit
            /\ Logged({"CRITICAL: directory doesn't exist"})
            /\ Printed({"Error: directory doesn't exist", "Cancelling..."})
    /\ UNCHANGED <<inputs, rejects, logging_on>>
    /\ InputFrame

main_template_dir ==
    /\ pc = "template"
    /\ IF tpl.exists
       THEN Goto("name") /\ Logged({}) /\ Printed({})
       ELSE /\ exit
            /\ Logged({"CRITICAL: template directory doesn't exist"})
            /\ Printed({"Error: template directory doesn't exist", "Cancelling..."})
    /\ UNCHANGED <<inputs, rejects, logging_on>>
    /\ InputFrame

\* if argv.name: ... else: enter the prompt loop
main_name ==
    /\ pc = "name" /\ impl = "script"
    /\ \E name \in NameInputs :
         IF name # NoText
         THEN IF NonEmpty(validated_name[name])
              THEN /\ repo_name' = validated_name[name]
                   /\ Goto("description")
                   /\ Logged({"INFO: Repo name will be"})
                   /\ Printed({})
              ELSE /\ exit
                   /\ Logged({"CRITICAL: Repository name can't be empty."})
                   /\ Printed({"Repository name can't be empty.", "Cancelling..."})
                   /\ UNCHANGED repo_name
         ELSE /\ Goto("name_prompt")
              /\ UNCHANGED repo_name /\ Logged({}) /\ Printed({})
    /\ UNCHANGED <<repo_description, project_license, answer, rejects, logging_on>>
    /\ InputFrame

\* one turn of the while True loop around input()
main_name_prompt ==
    /\ pc = "name_prompt" /\ impl = "script"
    /\ \E typed \in NameInputs :
         IF NonEmpty(validated_name[typed])
         THEN /\ repo_name' = validated_name[typed]
              /\ Goto("description")
              /\ Logged({"INFO: Repo name will be"})
              /\ rejects' = 0 /\ Printed({})
         ELSE /\ rejects < MaxRejects
              /\ rejects' = rejects + 1
              /\ Goto("name_prompt")
              /\ Logged({"DEBUG: repository name can't be empty."})
              /\ Printed({" - Error: repository name can't be empty."})
              /\ UNCHANGED repo_name
    /\ UNCHANGED <<repo_description, project_license, answer, logging_on>>
    /\ InputFrame

main_description ==
    /\ pc = "description" /\ impl = "script"
    /\ \E description \in DescriptionArgs, typed \in DescriptionInputs :
         repo_description' = IF description # "" THEN description ELSE typed
    /\ Goto("license")
    /\ Logged({"INFO: Repo description will be"})
    /\ UNCHANGED <<repo_name, project_license, answer, rejects, logging_on>> /\ Printed({})
    /\ InputFrame

\* argparse lets through only a license of the catalog (choices=LICENSES)
main_license ==
    /\ pc = "license" /\ impl = "script"
    /\ \E license \in LICENSES \cup {NoText} :
         IF license # NoText
         THEN /\ project_license' = license
              /\ Goto("confirm")
              /\ Logged({"INFO: Project will be under license"})
         ELSE /\ Goto("license_prompt")
              /\ UNCHANGED project_license /\ Logged({})
    /\ UNCHANGED <<repo_name, repo_description, answer, rejects, logging_on>> /\ Printed({})
    /\ InputFrame

\* one turn of the while True loop: the entry is uppercased, then looked up
main_license_prompt ==
    /\ pc = "license_prompt" /\ impl = "script"
    /\ \E typed \in LicenseInputs :
         IF Upper(typed) \in LICENSES
         THEN /\ project_license' = Upper(typed)
              /\ Goto("confirm")
              /\ Logged({"INFO: Project will be under license"})
              /\ rejects' = 0 /\ Printed({})
         ELSE /\ rejects < MaxRejects
              /\ rejects' = rejects + 1
              /\ Goto("license_prompt")
              /\ Logged({"DEBUG: license is not available."})
              /\ Printed({" - Error: license is not available."})
              /\ UNCHANGED project_license
    /\ UNCHANGED <<repo_name, repo_description, answer, logging_on>>
    /\ InputFrame

\* an emptiness test that looks at the files only
empty_folder_files_only(fs, ds) == \A f \in DOMAIN fs : fs[f] = Absent

\* next(folder.iterdir()) raises StopIteration exactly when there is no entry
empty_folder(fs, ds) == ds = {} /\ \A f \in DOMAIN fs : fs[f] = Absent

\* response not in ["y", "yes"] of main()
main_declined(response) == response \notin { <<"y">>, <<"y","e","s">> }

main_confirm ==
    /\ pc = "confirm" /\ impl = "script"
    /\ \E typed \in AnswerInputs :
         /\ answer' = typed
         /\ LET response == Lower(typed)
                warning  == IF empty_folder(files, dirs) THEN {}
                            ELSE {"WARNING: project folder is not empty!!"}
            IN  IF ~main_declined(response)
                THEN /\ Goto("readme")
                     /\ Printed(warning \cup {"Starting..."})
                     /\ Logged({})
                ELSE /\ exit
                     /\ Logged({"INFO: Script cancelled by the user."})
                     /\ Printed(warning \cup {"Cancelling..."})
    /\ UNCHANGED <<repo_name, repo_description, project_license, rejects, logging_on>>
    /\ InputFrame

\* ------------------------------------------------------------------------
\* Collecting input: consts.py and helpers.py
\* ------------------------------------------------------------------------

\* module level of consts.py: iterdir() on a missing licenses folder raises
import_consts ==
    /\ pc = "import" /\ impl = "modules"
    /\ IF tpl.licenses
       THEN Goto("logging") /\ Printed({})
       ELSE Uncaught /\ Printed({"Traceback: FileNotFoundError"})
    /\ UNCHANGED <<inputs, rejects, logging_on>> /\ Logged({})
    /\ InputFrame

start_logging ==
    /\ pc = "logging" /\ impl = "modules"
    /\ logging_on' = TRUE
    /\ Goto("folder")
    /\ UNCHANGED <<inputs, rejects>> /\ Logged({}) /\ Printed({})
    /\ InputFrame

\* get_project_folder without the exists() test
get_project_folder_unchecked ==
    /\ pc = "folder" /\ impl = "modules"
    /\ Goto("name")
    /\ Logged({"INFO: Local project directory will be"})
    /\ Printed({})
    /\ UNCHANGED <<inputs, rejects, logging_on>>
    /\ InputFrame

get_project_folder ==
    /\ pc = "folder" /\ impl = "modules"
    /\ IF folder_exists
       THEN /\ Goto("name")
            /\ Logged({"INFO: Local project directory will be"})
            /\ Printed({})
       ELSE /\ exit
            /\ Logged({"CRITICAL: directory doesn't exist"})
            /\ Printed({"Error: directory doesn't exist", "Cancelling..."})
    /\ UNCHANGED <<inputs, rejects, logging_on>>
    /\ InputFrame

\* if name: ... else: enter the prompt loop
get_repo_name ==
    /\ pc = "name" /\ impl = "modules"
    /\ \E name \in NameInputs :
         IF name # NoText
         THEN IF NonEmpty(validated_name[name])
              THEN /\ repo_name' = validated_name[name]
                   /\ Goto("description")
                   /\ Logged({"INFO: Repo name will be"})
                   /\ Printed({})
              ELSE /\ exit
                   /\ Logged({"CRITICAL: Repository name can't be empty."})
                   /\ Printed({"Repository name can't be empty.", "Cancelling..."})
                   /\ UNCHANGED repo_name
         ELSE /\ Goto("name_prompt")
              /\ UNCHANGED repo_name /\ Logged({}) /\ Printed({})
    /\ UNCHANGED <<repo_description, project_license, answer, rejects, logging_on>>
    /\ InputFrame

\* one turn of the while True loop of get_repo_name
get_repo_name_prompt ==
    /\ pc = "name_prompt" /\ impl = "modules"
    /\ \E typed \in NameInputs :
         IF NonEmpty(validated_name[typed])
         THEN /\ repo_name' = validated_name[typed]
              /\ Goto("description")
              /\ Logged({"INFO: Repo name will be"})
              /\ rejects' = 0 /\ Printed({})
         ELSE /\ rejects < MaxRejects
              /\ rejects' = rejects + 1
              /\ Goto("name_prompt")
              /\ Logged({"DEBUG: repository name can't be empty."})
              /\ Printed({" - Error: repository name can't be empty."})
              /\ UNCHANGED repo_name
    /\ UNCHANGED <<repo_description, project_license, answer, logging_on>>
    /\ InputFrame

get_repo_description ==
    /\ pc = "description" /\ impl = "modules"
    /\ \E description \in DescriptionArgs, typed \in DescriptionInputs :
         repo_description' = IF description # "" THEN description ELSE typed
    /\ Goto("license")
    /\ Logged({"INFO: Repo description will be"})
    /\ UNCHANGED <<repo_name, project_license, answer, rejects, logging_on>> /\ Printed({})
    /\ InputFrame

\* if licence: the candidate is taken as it is; else: enter the prompt loop
get_license ==
    /\ pc = "license" /\ impl = "modules"
    /\ \E licence \in LicenseInputs \cup {NoText} :
         IF licence # NoText
         THEN /\ project_license' = licence
              /\ Goto("confirm")
              /\ Logged({"INFO: Project will be under license"})
         ELSE /\ Goto("license_prompt")
              /\ UNCHANGED project_license /\ Logged({})
    /\ UNCHANGED <<repo_name, repo_description, answer, rejects, logging_on>> /\ Printed({})
    /\ InputFrame

\* one turn of the while True loop of get_license: the entry is looked up as typed
get_license_prompt ==
    /\ pc = "license_prompt" /\ impl = "modules"
    /\ \E typed \in LicenseInputs :
         IF typed \in LICENSES
         THEN /\ project_license' = typed
              /\ Goto("confirm")
              /\ Logged({"INFO: Project will be under license"})
              /\ rejects' = 0 /\ Printed({})
         ELSE /\ rejects < MaxRejects
              /\ rejects' = rejects + 1
              /\ Goto("license_prompt")
              /\ Logged({"DEBUG: license is not available."})
              /\ Printed({" - Error: license is not available."})
              /\ UNCHANGED project_license
    /\ UNCHANGED <<repo_name, repo_description, answer, logging_on>>
    /\ InputFrame

\* get_user_approval taking the empty answer for a yes
approval_declined_default_yes(response) ==
    response \notin { <<>>, <<"y">>, <<"y","e","s">> }

\* response not in ["y", "yes"] of get_user_approval
approval_declined(response) == response \notin { <<"y">>, <<"y","e","s">> }

\* the warning for a folder that is not empty, then get_user_approval()
get_user_approval ==
    /\ pc = "confirm" /\ impl = "modules"
    /\ \E typed \in AnswerInputs :
         /\ answer' = typed
         /\ LET response == Lower(typed)
                warning  == IF empty_folder(files, dirs) THEN {}
                            ELSE {"WARNING: project folder is not empty!!"}
            IN  IF ~approval_declined(response)
                THEN /\ Goto("readme")
                     /\ Printed(warning)
                     /\ Logged({})
                ELSE /\ exit
                     /\ Logged({"INFO: Program cancelled by the user."})
                     /\ Printed(warning \cup {"Cancelling..."})
    /\ UNCHANGED <<repo_name, repo_description, project_license, rejects, logging_on>>
    /\ InputFrame

CollectInput ==
    \/ import_pyghusk \/ main_trap \/ main_logging \/ main_folder
    \/ main_template_dir \/ main_name \/ main_name_prompt \/ main_description
    \/ main_license \/ main_license_prompt \/ main_confirm
    \/ import_consts \/ start_logging \/ get_project_folder \/ get_repo_name
    \/ get_repo_name_prompt \/ get_repo_description \/ get_license
    \/ get_license_prompt \/ get_user_approval

\* ------------------------------------------------------------------------
\* The pipeline steps.  Each step appends its name to ran when it starts.
\* ------------------------------------------------------------------------

\* what the steps leave alone
StepFrame == UNCHANGED <<env, inputs, rejects, logging_on, pure>>

Started(step) == ran' = Append(ran, step)

\* whether the template folder of license lic holds a file called file_name
TemplateHas(lic, file_name) ==
    lic \in tpl.catalog /\ file_name = LicenseFileName(lic)

\* open(path, "w") and write: the file gets the new content whatever it held
OverwriteCreate(existing, content) == content

\* open(path, "x") and write, FileExistsError caught: an existing file keeps
\* its content, a missing one is created with the new content
ExclusiveCreate(existing, content) ==
    IF existing # Absent THEN existing ELSE content

\* ---- [Step-1] readme.md ----

\* readme_content of main()
main_readme_content == Content("readme of main", repo_name, repo_description, project_license)

\* open(..., "x"): FileExistsError is caught, the step goes on
Step1 ==
    /\ pc = "readme" /\ impl = "script"
    /\ Started("readme")
    /\ files' = [files EXCEPT !["readme.md"] = ExclusiveCreate(@, main_readme_content)]
    /\ IF files["readme.md"] # Absent
       THEN /\ Logged({"INFO: A readme.md file was found. Skipping step."})
            /\ Printed({"A readme.md file was found. Skipping step."})
       ELSE /\ Logged({"INFO: A readme.md file was created"})
            /\ Printed({"A readme.md file was created"})
    /\ Goto("templates")
    /\ UNCHANGED <<dirs, world, failed>>
    /\ StepFrame

\* what build_readme writes
readme_content(name, description, licence) ==
    Content("readme of build_readme", Upper(name), description, licence)

build_readme ==
    /\ pc = "readme" /\ impl = "modules"
    /\ Started("readme")
    /\ files' = [files EXCEPT !["readme.md"] =
                    ExclusiveCreate(@, readme_content(repo_name, repo_description,
                                                      project_license))]
    /\ IF files["readme.md"] # Absent
       THEN /\ Logged({"INFO: A readme.md file was found. Skipping step."})
            /\ Printed({"A readme.md file was found. Skipping step."})
       ELSE /\ Logged({"INFO: A readme.md file was created"})
            /\ Printed({"A readme.md file was created"})
    /\ Goto("templates")
    /\ UNCHANGED <<dirs, world, failed>>
    /\ StepFrame

\* ---- [Step-2] template files ----

\* CopyTemplates with copies that leave an existing target alone
CopyTemplatesKeep(license_file) ==
    LET copy_docs  == GH_PAGES /\ "docs" \notin dirs
        dirs1      == IF copy_docs /\ tpl.docs THEN dirs \cup {"docs"} ELSE dirs
        files1     == [files EXCEPT ![".gitignore"] = ExclusiveCreate(@, TemplateIgnore)]
        files2     == [files1 EXCEPT ![license_file] =
                          ExclusiveCreate(@, TemplateLicense(project_license))]
    IN  IF (copy_docs /\ ~tpl.docs) \/ ~tpl.ignore
           \/ ~TemplateHas(project_license, license_file)
        THEN /\ Uncaught /\ failed' = "templates"
             /\ Printed({"Traceback: FileNotFoundError"})
             /\ Logged({})
             /\ UNCHANGED <<files, dirs>>
        ELSE /\ Goto("pages_files")
             /\ dirs' = dirs1
             /\ files' = files2
             /\ Logged({"INFO: Template files were copied"})
             /\ Printed({"Template files were copied"})
             /\ UNCHANGED failed

\* The three copies in order; the first that fails ends the step with what
\* the earlier ones wrote.  shutil.copy overwrites; a missing source raises
\* FileNotFoundError, which nothing catches.
CopyTemplates(license_file) ==
    LET copy_docs  == GH_PAGES /\ "docs" \notin dirs
        dirs1      == IF copy_docs /\ tpl.docs THEN dirs \cup {"docs"} ELSE dirs
        files1     == [files EXCEPT ![".gitignore"] = TemplateIgnore]
        files2     == [files1 EXCEPT ![license_file] = TemplateLicense(project_license)]
        docs_debug == IF ~GH_PAGES THEN {}
                      ELSE IF copy_docs THEN {"DEBUG: A /docs folder was copied"}
                      ELSE {"DEBUG: A /docs folder was found. Skipping step."}
    IN  IF copy_docs /\ ~tpl.docs
        THEN /\ Uncaught /\ failed' = "templates"
             /\ Printed({"Traceback: FileNotFoundError"})
             /\ UNCHANGED <<files, dirs>> /\ Logged({})
        ELSE IF ~tpl.ignore
        THEN /\ Uncaught /\ failed' = "templates"
             /\ Printed({"Traceback: FileNotFoundError"})
             /\ dirs' = dirs1
             /\ Logged(docs_debug)
             /\ UNCHANGED files
        ELSE IF ~TemplateHas(project_license, license_file)
        THEN /\ Uncaught /\ failed' = "templates"
             /\ Printed({"Traceback: FileNotFoundError"})
             /\ dirs' = dirs1
             /\ files' = files1
             /\ Logged(docs_debug \cup {"DEBUG: A .gitignore file was copied"})
        ELSE /\ Goto("pages_files")
             /\ dirs' = dirs1
             /\ files' = files2
             /\ Logged(docs_debug \cup {"DEBUG: A .gitignore file was copied",
                                        "DEBUG: A license file was copied",
                                        "INFO: Template files were copied"})
             /\ Printed({"Template files were copied"})
             /\ UNCHANGED failed

\* license_file of main(): the license is compared as it is
main_license_file(license) ==
    IF license = UNLICENSE THEN "UNLICENSE" ELSE "LICENSE"

Step2 ==
    /\ pc = "templates" /\ impl = "script"
    /\ Started("templates")
    /\ CopyTemplates(main_license_file(project_license))
    /\ UNCHANGED world
    /\ StepFrame

\* license_file of copy_templates: the license is uppercased, then compared
license_file(licence) ==
    IF Upper(licence) = UNLICENSE THEN "UNLICENSE" ELSE "LICENSE"

copy_templates ==
    /\ pc = "templates" /\ impl = "modules"
    /\ Started("templates")
    /\ CopyTemplates(license_file(project_license))
    /\ UNCHANGED world
    /\ StepFrame

\* ---- [Step-3] docs/index.md and docs/_config.yml ----

\* config_content of main()
main_config_content == Content("config of main", NoText, repo_description, NoText)

\* Both files are opened with "x": an existing file is kept.
Step3 ==
    /\ pc = "pages_files" /\ impl = "script"
    /\ IF ~GH_PAGES
       THEN /\ Goto("environment")
            /\ UNCHANGED <<files, ran, failed>> /\ Logged({}) /\ Printed({})
       ELSE /\ Started("pages_files")
            /\ IF "docs" \notin dirs
               THEN /\ Uncaught /\ failed' = "pages_files"
                    /\ Printed({"Traceback: FileNotFoundError"})
                    /\ UNCHANGED files /\ Logged({})
               ELSE LET index_found  == files["docs/index.md"] # Absent
                        config_found == files["docs/_config.yml"] # Absent
                        said == {IF index_found
                                 THEN "An index.md file was found. Skipping step."
                                 ELSE "An index.md file was created in /docs.",
                                 IF config_found
                                 THEN "A _config.yml file was found. Skipping step."
                                 ELSE "A _config.yml file was created in /docs."}
                    IN  /\ files' = [files EXCEPT
                              !["docs/index.md"] =
                                  ExclusiveCreate(@, main_readme_content),
                              !["docs/_config.yml"] =
                                  ExclusiveCreate(@, main_config_content)]
                        /\ Logged(said)
                        /\ Printed(said)
                        /\ Goto("environment")
                        /\ UNCHANGED failed
    /\ UNCHANGED <<dirs, world>>
    /\ StepFrame

\* what build_gh_pages writes to _config.yml
config_content(description) == Content("config of build_gh_pages", NoText, description, NoText)

\* shutil.copy(readme.md, docs/index.md) overwrites; _config.yml is opened
\* with "x".  Called when the pages toggle is on, as [Step-3] of main().
build_gh_pages ==
    /\ pc = "pages_files" /\ impl = "modules"
    /\ IF ~GH_PAGES
       THEN /\ Goto("environment")
            /\ UNCHANGED <<files, ran, failed>> /\ Logged({}) /\ Printed({})
       ELSE /\ Started("pages_files")
            /\ IF "docs" \notin dirs \/ files["readme.md"] = Absent
               THEN /\ Uncaught /\ failed' = "pages_files"
                    /\ Printed({"Traceback: FileNotFoundError"})
                    /\ UNCHANGED files /\ Logged({})
               ELSE LET config_found == files["docs/_config.yml"] # Absent
                        said == {"An index.md file was created in /docs.",
                                 IF config_found
                                 THEN "A _config.yml file was found. Skipping step."
                                 ELSE "A _config.yml file was created in /docs."}
                    IN  /\ files' = [files EXCEPT
                              !["docs/index.md"] = files["readme.md"],
                              !["docs/_config.yml"] =
                                  ExclusiveCreate(@, config_content(repo_description))]
                        /\ Logged(said)
                        /\ Printed(said)
                        /\ Goto("environment")
                        /\ UNCHANGED failed
    /\ UNCHANGED <<dirs, world>>
    /\ StepFrame

\* ------------------------------------------------------------------------
\* External commands
\* ------------------------------------------------------------------------

\* RunCommand with the exit() of the except branch left out
RunCommandNoExit(step, result, next, ok_log, ok_out) ==
    /\ Started(step)
    /\ Goto(next)
    /\ IF result = "ok"
       THEN /\ Logged(ok_log)
            /\ Printed(ok_out)
            /\ UNCHANGED failed
       ELSE /\ failed' = step
            /\ Logged({"CRITICAL: Subprocess error"})
            /\ Printed({"Subprocess error", "Cancelling..."})

\* The pattern around every execute_subprocess call: OSError (the command
\* could not be started) and CalledProcessError (non-zero exit status) are
\* caught, logged as critical and printed, then "Cancelling..." and exit();
\* otherwise the run goes on with the next statement.
RunCommand(step, result, next, ok_log, ok_out) ==
    /\ Started(step)
    /\ IF result = "ok"
       THEN /\ Goto(next)
            /\ Logged(ok_log)
            /\ Printed(ok_out)
            /\ UNCHANGED failed
       ELSE /\ exit
            /\ failed' = step
            /\ Logged({"CRITICAL: Subprocess error"})
            /\ Printed({"Subprocess error", "Cancelling..."})

\* str.strip(): leading and trailing whitespace removed
IsSpace(c) == c \in {" ", "\n", "\t"}

RECURSIVE LStrip(_)
LStrip(s) == IF s # <<>> /\ IsSpace(Head(s)) THEN LStrip(Tail(s)) ELSE s

RECURSIVE RStrip(_)
RStrip(s) ==
    IF s # <<>> /\ IsSpace(s[Len(s)]) THEN RStrip(SubSeq(s, 1, Len(s) - 1)) ELSE s

\* str.lstrip(): only the leading whitespace removed
StripLeft(s) == LStrip(s)

Strip(s) == RStrip(LStrip(s))

\* what pipenv --py can print
PipenvPyOutputs == { <<"/","v","/","p","y","\n">>, <<" ","/","v","/","p","y"," ","\n">> }

LINTER == "flake8"

\* ---- [Step-4] .. [Step-6] of main(): pipenv ----

Step4 ==
    /\ pc = "environment" /\ impl = "script"
    /\ \E result \in ProcessResults :
         RunCommand("environment", result, "linter",
                    {"INFO: Python virtual environment created."},
                    {"Python virtual environment created."})
    /\ UNCHANGED <<disk, world>>
    /\ StepFrame

Step5 ==
    /\ pc = "linter" /\ impl = "script"
    /\ \E result \in ProcessResults :
         RunCommand("linter", result, "interpreter",
                    {"INFO: linter installed."}, {"linter installed."})
    /\ UNCHANGED <<disk, world>>
    /\ StepFrame

Step6 ==
    /\ pc = "interpreter" /\ impl = "script"
    /\ \E result \in ProcessResults, output \in PipenvPyOutputs :
         /\ RunCommand("interpreter", result, "settings",
                       {"DEBUG: Interpreter path"}, {})
         /\ interpreter' = IF result = "ok" THEN Strip(output) ELSE interpreter
    /\ UNCHANGED <<disk, git, headers, repo_final_name, requests, remote_repo, server_repo, last_response>>
    /\ StepFrame

\* ---- build_environment, install_linter, get_interpreter_path ----

build_environment ==
    /\ pc = "environment" /\ impl = "modules"
    /\ \E result \in ProcessResults :
         RunCommand("environment", result, "linter",
                    {"INFO: Python virtual environment created."},
                    {"Python virtual environment created."})
    /\ UNCHANGED <<disk, world>>
    /\ StepFrame

install_linter ==
    /\ pc = "linter" /\ impl = "modules"
    /\ \E result \in ProcessResults :
         RunCommand("linter", result, "interpreter",
                    {"INFO: linter installed."}, {"linter installed."})
    /\ UNCHANGED <<disk, world>>
    /\ StepFrame

get_interpreter_path ==
    /\ pc = "interpreter" /\ impl = "modules"
    /\ \E result \in ProcessResults, output \in PipenvPyOutputs :
         /\ RunCommand("interpreter", result, "settings",
                       {"DEBUG: Interpreter path"}, {})
         /\ interpreter' = IF result = "ok" THEN Strip(output) ELSE interpreter
    /\ UNCHANGED <<disk, git, headers, repo_final_name, requests, remote_repo, server_repo, last_response>>
    /\ StepFrame

\* ---- [Step-7] .vscode/settings.json ----

\* the settings mapping dumped as json
settings_content(linter, interp) == Content("settings", interp, linter, NoText)

\* [Step-7] with a mkdir that accepts an existing folder
Step7_exist_ok ==
    /\ pc = "settings" /\ impl = "script"
    /\ Started("settings")
    /\ dirs' = dirs \cup {".vscode"}
    /\ files' = [files EXCEPT ![".vscode/settings.json"] =
                    settings_content(LINTER, interpreter)]
    /\ Goto("git_init")
    /\ Logged({"INFO: A settings.json file was created in /.vscode."})
    /\ Printed({"A settings.json file was created in /.vscode."})
    /\ UNCHANGED failed
    /\ UNCHANGED world
    /\ StepFrame

\* Path.mkdir raises FileExistsError on an existing folder; main() does not
\* catch it
Step7 ==
    /\ pc = "settings" /\ impl = "script"
    /\ Started("settings")
    /\ IF ".vscode" \in dirs
       THEN /\ Uncaught /\ failed' = "settings"
            /\ Printed({"Traceback: FileExistsError"})
            /\ UNCHANGED disk /\ Logged({})
       ELSE /\ dirs' = dirs \cup {".vscode"}
            /\ files' = [files EXCEPT ![".vscode/settings.json"] =
                            settings_content(LINTER, interpreter)]
            /\ Goto("git_init")
            /\ Logged({"INFO: A settings.json file was created in /.vscode."})
            /\ Printed({"A settings.json file was created in /.vscode."})
            /\ UNCHANGED failed
    /\ UNCHANGED world
    /\ StepFrame

\* build_vscode_settings catches the FileExistsError of Path.mkdir
build_vscode_settings ==
    /\ pc = "settings" /\ impl = "modules"
    /\ Started("settings")
    /\ dirs' = dirs \cup {".vscode"}
    /\ files' = [files EXCEPT ![".vscode/settings.json"] =
                    settings_content(LINTER, interpreter)]
    /\ Goto("git_init")
    /\ Logged({"INFO: A settings.json file was created in /.vscode."})
    /\ Printed({"A settings.json file was created in /.vscode."})
    /\ UNCHANGED <<world, failed>>
    /\ StepFrame

\* ---- [Step-8] .. [Step-10]: git init, git add -A, git commit ----

GitFrame == UNCHANGED <<disk, interpreter, headers, repo_final_name, requests, remote_repo,
                        server_repo, last_response>>

Step8 ==
    /\ pc = "git_init" /\ impl = "script"
    /\ \E result \in ProcessResults :
         /\ RunCommand("git_init", result, "git_add",
                       {"INFO: Initialized empty Git repository"},
                       {"Initialized empty Git repository"})
         /\ git' = IF result = "ok" THEN [git EXCEPT !.init = TRUE] ELSE git
    /\ GitFrame
    /\ StepFrame

Step9 ==
    /\ pc = "git_add" /\ impl = "script"
    /\ \E result \in ProcessResults :
         /\ RunCommand("git_add", result, "git_commit",
                       {"INFO: All not ignored files have been staged."},
                       {"All not ignored files have been staged."})
         /\ git' = IF result = "ok" THEN [git EXCEPT !.staged = TRUE] ELSE git
    /\ GitFrame
    /\ StepFrame

\* git commit with nothing changed since the last commit prints "nothing to
\* commit" and ends with status 1, which check_output turns into
\* CalledProcessError
NothingToCommit == git.commits > 0 /\ files = git.tree

CommitResults ==
    IF NothingToCommit THEN {"CalledProcessError"} ELSE ProcessResults

Step10 ==
    /\ pc = "git_commit" /\ impl = "script"
    /\ \E result \in CommitResults :
         /\ RunCommand("git_commit", result, "auth",
                       {"INFO: Local commit completed.", "DEBUG: Local commit output"},
                       {"Local commit completed."})
         /\ git' = IF result = "ok"
                   THEN [git EXCEPT !.commits = @ + 1, !.tree = files] ELSE git
    /\ GitFrame
    /\ StepFrame

\* initialise_git followed by the commit, git add -A left out
initialise_git_then_commit ==
    /\ pc = "git_init" /\ impl = "modules"
    /\ \E result \in ProcessResults :
         /\ RunCommand("git_init", result, "git_commit",
                       {"INFO: Initialized empty Git repository"},
                       {"Initialized empty Git repository"})
         /\ git' = IF result = "ok" THEN [git EXCEPT !.init = TRUE] ELSE git
    /\ GitFrame
    /\ StepFrame

initialise_git ==
    /\ pc = "git_init" /\ impl = "modules"
    /\ \E result \in ProcessResults :
         /\ RunCommand("git_init", result, "git_add",
                       {"INFO: Initialized empty Git repository"},
                       {"Initialized empty Git repository"})
         /\ git' = IF result = "ok" THEN [git EXCEPT !.init = TRUE] ELSE git
    /\ GitFrame
    /\ StepFrame

stage_files ==
    /\ pc = "git_add" /\ impl = "modules"
    /\ \E result \in ProcessResults :
         /\ RunCommand("git_add", result, "git_commit",
                       {"INFO: All not ignored files have been staged."},
                       {"All not ignored files have been staged."})
         /\ git' = IF result = "ok" THEN [git EXCEPT !.staged = TRUE] ELSE git
    /\ GitFrame
    /\ StepFrame

\* commit_files with the exit() of the except branch left out
commit_files_no_exit ==
    /\ pc = "git_commit" /\ impl = "modules"
    /\ \E result \in CommitResults :
         /\ RunCommandNoExit("git_commit", result, "auth",
                             {"INFO: Local commit completed.", "DEBUG: Local commit output"},
                             {"Local commit completed."})
         /\ git' = IF result = "ok"
                   THEN [git EXCEPT !.commits = @ + 1, !.tree = files] ELSE git
    /\ GitFrame
    /\ StepFrame

commit_files ==
    /\ pc = "git_commit" /\ impl = "modules"
    /\ \E result \in CommitResults :
         /\ RunCommand("git_commit", result, "auth",
                       {"INFO: Local commit completed.", "DEBUG: Local commit output"},
                       {"Local commit completed."})
         /\ git' = IF result = "ok"
                   THEN [git EXCEPT !.commits = @ + 1, !.tree = files] ELSE git
    /\ GitFrame
    /\ StepFrame

\* ------------------------------------------------------------------------
\* Authentication
\* ------------------------------------------------------------------------

\* what the environment variable or the keyring can hold for the user
StoredTokens == {"tok"}

\* what can be typed at the password prompts
PasswordInputs == {"pw", "px"}

\* base64.b64encode(f"{username}:{password}".encode()).decode()
b64_user_password(username, password) == <<"base64", username, ":", password>>

AcceptV3 == "application/vnd.github.v3+json"

\* the headers mapping main() builds: always the Basic scheme
main_headers(password) ==
    [agent |-> "USERNAME using pyghusk/0.0.1", scheme |-> "Basic",
     credential |-> b64_user_password(USERNAME, password), accept |-> AcceptV3]

AuthFrame == UNCHANGED <<disk, interpreter, git, repo_final_name, requests, remote_repo,
                         server_repo, last_response>>

\* [Step-11]: os.getenv("GitHub"); without it the password loop is entered
Step11 ==
    /\ pc = "auth" /\ impl = "script"
    /\ Started("auth")
    /\ \E password \in StoredTokens \cup {None} :
         IF password # None
         THEN headers' = main_headers(password) /\ Goto("create_repo")
         ELSE UNCHANGED headers /\ Goto("password")
    /\ UNCHANGED <<rejects, failed>> /\ Logged({}) /\ Printed({})
    /\ AuthFrame
    /\ UNCHANGED <<env, inputs, logging_on, pure>>

\* one turn of the while True loop around the two getpass calls
Step11_password ==
    /\ pc = "password" /\ impl = "script"
    /\ \E password \in PasswordInputs, password_bis \in PasswordInputs :
         IF password = password_bis
         THEN /\ headers' = main_headers(password)
              /\ Goto("create_repo")
              /\ rejects' = 0 /\ Logged({}) /\ Printed({})
         ELSE /\ rejects < MaxRejects
              /\ rejects' = rejects + 1
              /\ Goto("password")
              /\ Logged({"DEBUG: passwords do not match."})
              /\ Printed({" - Error: passwords do not match."})
              /\ UNCHANGED headers
    /\ UNCHANGED <<ran, failed>>
    /\ AuthFrame
    /\ UNCHANGED <<env, inputs, logging_on, pure>>

\* headers that use the Basic scheme whatever was retrieved
build_headers_always_basic(username, token, password) ==
    [agent |-> "username using pyghusk/0.1.0",
     scheme |-> "Basic",
     credential |-> b64_user_password(username, IF token = None THEN password ELSE token),
     accept |-> AcceptV3]

\* the headers mapping build_headers returns
build_headers_result(username, token, password) ==
    [agent |-> "username using pyghusk/0.1.0",
     scheme |-> IF token = None THEN "Basic" ELSE "token",
     credential |-> IF token = None THEN b64_user_password(username, password)
                    ELSE <<token>>,
     accept |-> AcceptV3]

\* a debug entry that shows the token
token_debug_values_leak(token) == {token}

\* what is formatted into the debug entry of the token branch:
\* keyring.get_keyring(), the name of the backend
token_debug_values(token) == {"keyring backend"}

\* build_headers up to the password loop: keyring.get_password gives the
\* token, None, or raises InitError (no credential manager), which is caught
build_headers ==
    /\ pc = "auth" /\ impl = "modules"
    /\ Started("auth")
    /\ \E found \in StoredTokens \cup {None, "InitError"} :
         LET token == IF found = "InitError" THEN None ELSE found
             warn  == IF found = "InitError"
                      THEN {"WARNING: No credential manager was found in the system."}
                      ELSE {}
         IN  IF token # None
             THEN /\ headers' = build_headers_result(USERNAME, token, None)
                  /\ Goto("create_repo")
                  /\ Logged(warn \cup {"DEBUG: OAuth token retrieved"}
                                 \cup token_debug_values(token))
             ELSE /\ UNCHANGED headers
                  /\ Goto("password")
                  /\ Logged(warn)
    /\ UNCHANGED <<rejects, failed>> /\ Printed({})
    /\ AuthFrame
    /\ UNCHANGED <<env, inputs, logging_on, pure>>

\* one turn of the while True loop of build_headers, then the Basic headers
build_headers_password ==
    /\ pc = "password" /\ impl = "modules"
    /\ \E password \in PasswordInputs, password_bis \in PasswordInputs :
         IF password = password_bis
         THEN /\ headers' = build_headers_result(USERNAME, None, password)
              /\ Goto("create_repo")
              /\ Logged({"DEBUG: Asking for credentials."})
              /\ rejects' = 0 /\ Printed({})
         ELSE /\ rejects < MaxRejects
              /\ rejects' = rejects + 1
              /\ Goto("password")
              /\ Logged({"DEBUG: passwords do not match."})
              /\ Printed({" - Error: passwords do not match."})
              /\ UNCHANGED headers
    /\ UNCHANGED <<ran, failed>>
    /\ AuthFrame
    /\ UNCHANGED <<env, inputs, logging_on, pure>>

\* ------------------------------------------------------------------------
\* HTTP calls
\* ------------------------------------------------------------------------

\* status codes a response can carry
StatusCodes == {100, 199, 200, 201, 299, 300, 404, 422, 599}

\* what the body of a response can be: a json object with a full_name field,
\* a json object with a message field, another json object, or no json
Bodies == {"json full_name", "json message", "json other", "text"}

\* what requests.post gives: a response, or an exception of the transport
Responses == [status : StatusCodes, body : Bodies]
                \cup {[status |-> 0, body |-> "ConnectionError"]}

\* the full names the server can return for a requested name: owner/name, or
\* owner/name changed by the server
ServerNames(name) ==
    { <<USERNAME, "/">> \o name, <<USERNAME, "/">> \o name \o <<"-","1">> }

Request(endpoint, repo) ==
    [endpoint |-> endpoint, repo |-> repo, accept |-> headers'.accept,
     scheme |-> headers.scheme]

Post(endpoint, repo) == requests' = Append(requests, Request(endpoint, repo))

\* the else branch of main() after a request: critical entry, raw response
\* at debug level, "Cancelling..." and exit()
main_request_failed(step, response) ==
    /\ exit
    /\ failed' = step
    /\ Logged({"CRITICAL: API request failed", "DEBUG: raw response"})
    /\ Printed({"API request failed", "Cancelling..."})

\* the else branch of the functions of actions.py: critical entry and print,
\* then json.loads(response.text)["message"], which raises on a body that is
\* no json or has no message; only after it the debug entries, "Cancelling..."
\* and exit()
request_failed(step, response) ==
    /\ failed' = step
    /\ IF response.body = "json message"
       THEN /\ exit
            /\ Logged({"CRITICAL: API request failed", "CRITICAL: server message",
                       "DEBUG: raw response", "DEBUG: response headers"})
            /\ Printed({"API request failed", "Cancelling..."})
       ELSE /\ Uncaught
            /\ Logged({"CRITICAL: API request failed"})
            /\ Printed({"API request failed",
                        "Traceback: JSONDecodeError or KeyError"})

\* requests.post raised: nothing catches it
TransportFailed(step) ==
    /\ Uncaught
    /\ failed' = step
    /\ Printed({"Traceback: ConnectionError"})
    /\ Logged({})

HttpFrame == UNCHANGED <<disk, interpreter, git, remote_repo>>

\* 200 <= response.status_code < 300 of main()
main_success(status) == 200 <= status /\ status < 300

\* [Step-12]: create the remote repository
Step12 ==
    /\ pc = "create_repo" /\ impl = "script"
    /\ Started("create_repo")
    /\ UNCHANGED headers
    /\ Post("POST /user/repos", repo_name)
    /\ \E response \in Responses, full_name \in ServerNames(repo_name) :
         /\ last_response' = response
         /\ server_repo' = IF response.body # "ConnectionError"
                               /\ 200 <= response.status /\ response.status < 300
                            THEN full_name ELSE server_repo
         /\ IF response.body = "ConnectionError"
            THEN TransportFailed("create_repo") /\ UNCHANGED repo_final_name
            ELSE IF main_success(response.status)
            THEN IF response.body = "json full_name"
                 THEN /\ repo_final_name' = full_name
                      /\ Goto("add_origin")
                      /\ Logged({"INFO: Remote repository created.", "DEBUG: raw response"})
                      /\ Printed({"Remote repository created."})
                      /\ UNCHANGED failed
                 ELSE /\ Uncaught
                      /\ failed' = "create_repo"
                      /\ Printed({"Traceback: JSONDecodeError or KeyError"})
                      /\ UNCHANGED repo_final_name /\ Logged({})
            ELSE /\ main_request_failed("create_repo", response)
                 /\ UNCHANGED repo_final_name
    /\ HttpFrame
    /\ StepFrame

\* a success band that takes 300 in
success_up_to_300(status) == 200 <= status /\ status <= 300

\* 200 <= response.status_code < 300 of create_remote_repository
create_success(status) == 200 <= status /\ status < 300

\* what create_remote_repository returns for a response it accepted
create_returns(name, full_name) == full_name

create_remote_repository ==
    /\ pc = "create_repo" /\ impl = "modules"
    /\ Started("create_repo")
    /\ UNCHANGED headers
    /\ Post("POST /user/repos", repo_name)
    /\ \E response \in Responses, full_name \in ServerNames(repo_name) :
         /\ last_response' = response
         /\ server_repo' = IF response.body # "ConnectionError"
                               /\ 200 <= response.status /\ response.status < 300
                            THEN full_name ELSE server_repo
         /\ IF response.body = "ConnectionError"
            THEN TransportFailed("create_repo") /\ UNCHANGED repo_final_name
            ELSE IF create_success(response.status)
            THEN IF response.body = "json full_name"
                 THEN /\ repo_final_name' = create_returns(repo_name, full_name)
                      /\ Goto("add_origin")
                      /\ Logged({"INFO: Remote repository created.", "DEBUG: raw response"})
                      /\ Printed({"Remote repository created."})
                      /\ UNCHANGED failed
                 ELSE /\ Uncaught
                      /\ failed' = "create_repo"
                      /\ Printed({"Traceback: JSONDecodeError or KeyError"})
                      /\ UNCHANGED repo_final_name /\ Logged({})
            ELSE /\ request_failed("create_repo", response)
                 /\ UNCHANGED repo_final_name
    /\ HttpFrame
    /\ StepFrame

\* ---- [Step-13], [Step-14]: git remote add origin, git push ----

GitHubUrl(path) == <<"https://github.com/">> \o path

\* remote_repo built from the name that was requested
main_remote_path_requested == <<USERNAME, "/">> \o repo_name

\* the name main() builds remote_repo from
main_remote_path == repo_final_name

Step13 ==
    /\ pc = "add_origin" /\ impl = "script"
    /\ remote_repo' = GitHubUrl(main_remote_path)
    /\ \E result \in ProcessResults :
         /\ RunCommand("add_origin", result, "push",
                       {"INFO: Remote repository added."}, {})
         /\ git' = IF result = "ok"
                   THEN [git EXCEPT !.origin = remote_repo' \o <<".git">>] ELSE git
    /\ UNCHANGED <<disk, interpreter, headers, repo_final_name, requests, server_repo, last_response>>
    /\ StepFrame

Step14 ==
    /\ pc = "push" /\ impl = "script"
    /\ \E result \in ProcessResults :
         /\ RunCommand("push", result, "enable_pages",
                       {"INFO: Push to remote repository completed.", "DEBUG: output"},
                       {"Push to remote repository completed."})
         /\ git' = IF result = "ok" THEN [git EXCEPT !.pushed = TRUE] ELSE git
    /\ GitFrame
    /\ StepFrame

\* add_origin(folder, remote_path), called with the name that
\* create_remote_repository returned
add_origin ==
    /\ pc = "add_origin" /\ impl = "modules"
    /\ remote_repo' = GitHubUrl(repo_final_name)
    /\ \E result \in ProcessResults :
         /\ RunCommand("add_origin", result, "push",
                       {"INFO: Remote repository added."}, {})
         /\ git' = IF result = "ok"
                   THEN [git EXCEPT !.origin = remote_repo' \o <<".git">>] ELSE git
    /\ UNCHANGED <<disk, interpreter, headers, repo_final_name, requests, server_repo, last_response>>
    /\ StepFrame

\* update_remote that removes the remote again when the push fails
update_remote_undo ==
    /\ pc = "push" /\ impl = "modules"
    /\ \E result \in ProcessResults :
         /\ RunCommand("push", result, "enable_pages",
                       {"INFO: Push to remote repository completed.", "DEBUG: output"},
                       {"Push to remote repository completed."})
         /\ git' = IF result = "ok" THEN [git EXCEPT !.pushed = TRUE]
                   ELSE [git EXCEPT !.origin = NoText]
    /\ GitFrame
    /\ StepFrame

update_remote ==
    /\ pc = "push" /\ impl = "modules"
    /\ \E result \in ProcessResults :
         /\ RunCommand("push", result, "enable_pages",
                       {"INFO: Push to remote repository completed.", "DEBUG: output"},
                       {"Push to remote repository completed."})
         /\ git' = IF result = "ok" THEN [git EXCEPT !.pushed = TRUE] ELSE git
    /\ GitFrame
    /\ StepFrame

\* ---- [Step-15], [Step-16]: enable pages, rebuild the blog pages ----

AcceptSwitcheroo == "application/vnd.github.switcheroo-preview+json"
AcceptMisterFantastic == "application/vnd.github.mister-fantastic-preview+json"

PagesFrame == UNCHANGED <<disk, interpreter, git, repo_final_name, remote_repo, server_repo>>

\* the personal blog repository of the user
BlogRepo == <<USERNAME, "/", USERNAME, ".github.io">>

Step15 ==
    /\ pc = "enable_pages" /\ impl = "script"
    /\ IF ~GH_PAGES
       THEN /\ Goto("build_pages")
            /\ UNCHANGED <<headers, requests, last_response, ran, failed>> /\ Logged({}) /\ Printed({})
       ELSE /\ Started("enable_pages")
            /\ headers' = [headers EXCEPT !.accept = AcceptSwitcheroo]
            /\ Post("POST /repos/{}/pages", repo_final_name)
            /\ \E response \in Responses :
                 /\ last_response' = response
                 /\ IF response.body = "ConnectionError"
                    THEN TransportFailed("enable_pages")
                    ELSE IF main_success(response.status)
                    THEN /\ Goto("build_pages")
                         /\ Logged({"INFO: GitHub pages enabled.", "DEBUG: raw response"})
                         /\ Printed({"GitHub pages enabled."})
                         /\ UNCHANGED failed
                    ELSE main_request_failed("enable_pages", response)
    /\ PagesFrame
    /\ StepFrame

Step16 ==
    /\ pc = "build_pages" /\ impl = "script"
    /\ IF ~GH_PAGES
       THEN /\ Goto("feedback")
            /\ UNCHANGED <<headers, requests, last_response, ran, failed>> /\ Logged({}) /\ Printed({})
       ELSE /\ Started("build_pages")
            /\ headers' = [headers EXCEPT !.accept = AcceptMisterFantastic]
            /\ Post("POST /repos/{}/pages/builds", BlogRepo)
            /\ \E response \in Responses :
                 /\ last_response' = response
                 /\ IF response.body = "ConnectionError"
                    THEN TransportFailed("build_pages")
                    ELSE IF main_success(response.status)
                    THEN /\ Goto("feedback")
                         /\ Logged({"INFO: Personal blog pages rebuilt.", "DEBUG: raw response"})
                         /\ Printed({"Personal blog pages rebuilt."})
                         /\ UNCHANGED failed
                    ELSE main_request_failed("build_pages", response)
    /\ PagesFrame
    /\ StepFrame

\* 200 <= response.status_code < 300 of enable_pages
enable_success(status) == 200 <= status /\ status < 300

\* enable_pages(headers, remote_path), called when the pages toggle is on
\* with the name that create_remote_repository returned
enable_pages ==
    /\ pc = "enable_pages" /\ impl = "modules"
    /\ IF ~GH_PAGES
       THEN /\ Goto("build_pages")
            /\ UNCHANGED <<headers, requests, last_response, ran, failed>> /\ Logged({}) /\ Printed({})
       ELSE /\ Started("enable_pages")
            /\ headers' = [headers EXCEPT !.accept = AcceptSwitcheroo]
            /\ Post("POST /repos/{}/pages", repo_final_name)
            /\ \E response \in Responses :
                 /\ last_response' = response
                 /\ IF response.body = "ConnectionError"
                    THEN TransportFailed("enable_pages")
                    ELSE IF enable_success(response.status)
                    THEN /\ Goto("build_pages")
                         /\ Logged({"INFO: GitHub pages enabled.", "DEBUG: raw response"})
                         /\ Printed({"GitHub pages enabled."})
                         /\ UNCHANGED failed
                    ELSE request_failed("enable_pages", response)
    /\ PagesFrame
    /\ StepFrame

\* 200 <= response.status_code < 300 of build_pages
build_success(status) == 200 <= status /\ status < 300

\* build_pages(username, headers), called when the pages toggle is on
build_pages ==
    /\ pc = "build_pages" /\ impl = "modules"
    /\ IF ~GH_PAGES
       THEN /\ Goto("feedback")
            /\ UNCHANGED <<headers, requests, last_response, ran, failed>> /\ Logged({}) /\ Printed({})
       ELSE /\ Started("build_pages")
            /\ headers' = [headers EXCEPT !.accept = AcceptMisterFantastic]
            /\ Post("POST /repos/{}/pages/builds", BlogRepo)
            /\ \E response \in Responses :
                 /\ last_response' = response
                 /\ IF response.body = "ConnectionError"
                    THEN TransportFailed("build_pages")
                    ELSE IF build_success(response.status)
                    THEN /\ Goto("feedback")
                         /\ Logged({"INFO: Personal blog pages rebuilt.", "DEBUG: raw response"})
                         /\ Printed({"Personal blog pages rebuilt."})
                         /\ UNCHANGED failed
                    ELSE request_failed("build_pages", response)
    /\ PagesFrame
    /\ StepFrame

\* ---- [Feedback] ----

\* the summary, then main() returns
Feedback ==
    /\ pc = "feedback"
    /\ Return
    /\ Printed({"Work successfully finished!", "Check the log file",
                "Check the project files", "Check the remote repository"})
    /\ UNCHANGED <<disk, world, ran, failed>> /\ Logged({})
    /\ StepFrame

Pipeline ==
    \/ Step1 \/ Step2 \/ Step3 \/ Step4 \/ Step5 \/ Step6 \/ Step7 \/ Step8
    \/ Step9 \/ Step10 \/ Step11 \/ Step11_password \/ Step12 \/ Step13
    \/ Step14 \/ Step15 \/ Step16
    \/ build_readme \/ copy_templates \/ build_gh_pages \/ build_environment
    \/ install_linter \/ get_interpreter_path \/ build_vscode_settings
    \/ initialise_git \/ stage_files \/ commit_files \/ build_headers
    \/ build_headers_password \/ create_remote_repository \/ add_origin
    \/ update_remote \/ enable_pages \/ build_pages
    \/ Feedback

Next == CollectInput \/ Pipeline

Spec == Init /\ [][Next]_vars

\* Every call returns: execute_subprocess, requests.post, input() and getpass
\* block until they have their result, so a run that can take a step takes
\* it; the prompt loops get an entry they accept after at most MaxRejects
\* refused ones.
SpecLive == Spec /\ WF_vars(Next)

\* ------------------------------------------------------------------------
\* A second run in the same project folder
\* ------------------------------------------------------------------------

\* what the user does to the folder between the two runs: nothing, or edit
\* readme.md and remove the .vscode folder
FolderEdits == {"none", "edited"}

EditedFiles(edit) ==
    [f \in FileNames |->
        IF edit = "none" THEN files[f]
        ELSE IF f = "readme.md" THEN Content("user", NoText, "edited", NoText)
        ELSE IF f = ".vscode/settings.json" THEN Absent
        ELSE files[f]]

EditedDirs(edit) ==
    IF edit = "none" THEN dirs ELSE dirs \ {".vscode"}

\* the creation request was answered with success and a later step failed
CreatedThenFailed ==
    /\ pc = "end"
    /\ server_repo # NoText
    /\ failed \in {"add_origin", "push", "enable_pages", "build_pages"}

\* The program is started again in the same folder, with the arguments and
\* the answers of the first run: the import, the logging and the input stage
\* do what they did, and the run is at [Step-1] with a new process (no
\* headers, no interpreter path, no response) and the folder, the local
\* repository and the server as they are.
rerun ==
    /\ CreatedThenFailed
    /\ run < MaxRuns
    /\ run' = run + 1
    /\ \E edit \in FolderEdits :
         /\ files' = EditedFiles(edit)
         /\ dirs' = EditedDirs(edit)
    /\ files0' = files'
    /\ dirs0' = dirs'
    /\ pc' = "readme"
    /\ rejects' = 0
    /\ interpreter' = NoText
    /\ headers' = NoHeaders
    /\ repo_final_name' = NoText
    /\ remote_repo' = NoText
    /\ last_response' = NoResponse
    /\ ran' = <<>>
    /\ failed' = "none"
    /\ term' = "running"
    /\ exitStatus' = -1
    /\ log' = {}
    /\ out' = {}
    /\ UNCHANGED <<impl, USERNAME, GH_PAGES, tpl, folder_exists, inputs,
                   logging_on, git, requests, server_repo, pure>>

NextRerun == Next \/ rerun

SpecRerun == Init /\ [][NextRerun]_vars

\* ------------------------------------------------------------------------
\* validate_name on its own
\* ------------------------------------------------------------------------

\* the characters the strings are made of: letters of both cases, a digit,
\* white space, punctuation, the hyphen, the underscore, an accented letter
\* and a letter without ascii form
NameAlphabet == {"a", "B", "1", " ", "!", "-", "_", "é", "ß"}

NameStrings == UNION { [1..n -> NameAlphabet] : n \in 0..MaxNameLen }

\* no run of main(): only the string and the results change
InitName ==
    /\ name_arg \in NameStrings
    /\ name_results = <<>>
    /\ impl = "modules" /\ USERNAME = "user" /\ GH_PAGES = FALSE
    /\ tpl = TemplatesComplete /\ folder_exists = TRUE
    /\ files0 = NoFiles /\ dirs0 = {} /\ files = NoFiles /\ dirs = {}
    /\ run = 1
    /\ pc = "end" /\ logging_on = FALSE
    /\ repo_name = NoText /\ repo_description = None
    /\ project_license = NoText /\ answer = <<None>> /\ rejects = 0
    /\ interpreter = NoText /\ git = NoGit /\ headers = NoHeaders
    /\ repo_final_name = NoText /\ requests = <<>> /\ remote_repo = NoText
    /\ server_repo = NoText /\ last_response = NoResponse
    /\ ran = <<>> /\ failed = "none" /\ term = "running" /\ exitStatus = -1
    /\ log = {} /\ out = {}
    /\ setup = NoSetup /\ tokens = NoTokens

\* validate_name(name), then validate_name on what it returned
call_validate_name ==
    /\ Len(name_results) < MaxCalls
    /\ LET name == IF name_results = <<>> THEN name_arg
                   ELSE name_results[Len(name_results)]
       IN  name_results' = Append(name_results, validate_name(name))
    /\ UNCHANGED <<name_arg, env, inputs, disk, world, pc, logging_on, rejects,
                   ran, failed, term, exitStatus, log, out, setup, tokens>>

NextName == call_validate_name

SpecName == InitName /\ [][NextName]_vars

\* ------------------------------------------------------------------------
\* create_templates.py, the setup utility, alone
\* ------------------------------------------------------------------------

\* no program directory
NoTemplates ==
    [exists |-> FALSE, licenses |-> FALSE, docs |-> FALSE, ignore |-> FALSE,
     catalog |-> {}]

\* a template directory made by hand, as the documentation of pyghusk.py
\* describes it
HandMadeTemplates ==
    [exists |-> TRUE, licenses |-> TRUE, docs |-> TRUE, ignore |-> TRUE,
     catalog |-> {UNLICENSE}]

\* the spdx_id lists GET /licenses can answer with
LicenseLists == { <<MIT>>, <<MIT, Unlicense>>, <<Unlicense, MIT>> }

\* what requests.get gives the utility: the body is the json the endpoint
\* documents, a json object with a message field, or no json
SetupResponses ==
    [status : {199, 200, 299, 300, 404},
     body : {"json expected", "json message", "text"}]
        \cup {[status |-> 0, body |-> "ConnectionError"]}

AcceptRaw == "application/vnd.github.v3.raw"

Get(endpoint, what) == requests' = Append(requests, Request(endpoint, what))

\* 200 <= response.status_code < 300 of the three requests
setup_success(status) == 200 <= status /\ status < 300

\* the else branch of the three requests: print, then
\* json.loads(response.text)["message"], print and exit()
setup_request_failed(response) ==
    IF response.body = "json message"
    THEN exit /\ Printed({"API request failed", "Error"})
    ELSE Uncaught /\ Printed({"API request failed",
                              "Traceback: JSONDecodeError or TypeError"})

\* what the utility leaves alone
SetupFrame ==
    UNCHANGED <<impl, USERNAME, GH_PAGES, folder_exists, files0, dirs0, run,
                inputs, disk, interpreter, git, repo_final_name, remote_repo,
                server_repo, logging_on, rejects, ran, failed, log, name_arg,
                name_results, tokens>>

InitSetup ==
    /\ tpl \in {NoTemplates, HandMadeTemplates}
    /\ setup = [fresh |-> ~tpl.exists, fetched |-> FALSE, licenses |-> <<>>,
                todo |-> <<>>]
    /\ pc = "setup_dirs"
    /\ headers = NoHeaders /\ requests = <<>> /\ last_response = NoResponse
    /\ term = "running" /\ exitStatus = -1 /\ log = {} /\ out = {}
    /\ impl = "modules" /\ USERNAME = "user" /\ GH_PAGES = FALSE
    /\ folder_exists = TRUE
    /\ files0 = NoFiles /\ dirs0 = {} /\ files = NoFiles /\ dirs = {}
    /\ run = 1 /\ logging_on = FALSE
    /\ repo_name = NoText /\ repo_description = None
    /\ project_license = NoText /\ answer = <<None>> /\ rejects = 0
    /\ interpreter = NoText /\ git = NoGit
    /\ repo_final_name = NoText /\ remote_repo = NoText /\ server_repo = NoText
    /\ ran = <<>> /\ failed = "none"
    /\ name_arg = NoText /\ name_results = <<>> /\ tokens = NoTokens

\* create_program_directory, then the headers mapping of main(): both mkdir
\* calls catch FileExistsError; templates/docs is made with its parents
create_program_directory ==
    /\ pc = "setup_dirs"
    /\ tpl' = [tpl EXCEPT !.exists = TRUE, !.docs = TRUE]
    /\ headers' = [agent |-> "pyghusk/0.1.0", scheme |-> None,
                   credential |-> <<>>, accept |-> AcceptV3]
    /\ Printed({IF tpl.docs THEN "Directory templates/docs already exists."
                ELSE "Directory templates/docs created."})
    /\ Goto("setup_ignore")
    /\ UNCHANGED <<requests, last_response, setup>>
    /\ SetupFrame

\* get_gitigore_file and the write of main(): the Accept entry of the mapping
\* is set to the raw media type; the file is opened with "x"
get_gitigore_file ==
    /\ pc = "setup_ignore"
    /\ headers' = [headers EXCEPT !.accept = AcceptRaw]
    /\ Get("GET /gitignore/templates/Python", NoText)
    /\ \E response \in SetupResponses :
         /\ last_response' = response
         /\ IF response.body = "ConnectionError"
            THEN /\ Uncaught /\ Printed({"Traceback: ConnectionError"})
                 /\ UNCHANGED tpl
            ELSE IF setup_success(response.status)
            THEN /\ tpl' = [tpl EXCEPT !.ignore = TRUE]
                 /\ Printed({IF tpl.ignore THEN "A .gitignore file already exists."
                             ELSE ".gitignore file created."})
                 /\ Goto("setup_urls")
            ELSE /\ setup_request_failed(response)
                 /\ UNCHANGED tpl
    /\ UNCHANGED setup
    /\ SetupFrame

\* get_license_urls: the mapping is used as get_gitigore_file left it; the
\* body is parsed as a list of objects with spdx_id and url
get_license_urls ==
    /\ pc = "setup_urls"
    /\ UNCHANGED headers
    /\ Get("GET /licenses", NoText)
    /\ \E response \in SetupResponses, ids \in LicenseLists :
         /\ last_response' = response
         /\ IF response.body = "ConnectionError"
            THEN /\ Uncaught /\ Printed({"Traceback: ConnectionError"})
                 /\ UNCHANGED setup
            ELSE IF setup_success(response.status)
            THEN IF response.body = "json expected"
                 THEN /\ setup' = [setup EXCEPT !.fetched = TRUE,
                                                !.licenses = ids, !.todo = ids]
                      /\ Goto("setup_license") /\ Printed({})
                 ELSE /\ Uncaught
                      /\ Printed({"Traceback: JSONDecodeError or TypeError"})
                      /\ UNCHANGED setup
            ELSE /\ setup_request_failed(response)
                 /\ UNCHANGED setup
    /\ UNCHANGED tpl
    /\ SetupFrame

\* a folder named by the identifier in capitals
license_folder_upper(name) == Upper(name)

\* TEMPLATE_DIR / "licenses" / name: the folder is named by the identifier
\* as fetched
license_folder(name) == name

\* get_license_file for the next license of the loop of main(): the folder
\* licenses/<name> is made with its parents and the file, named by
\* LicenseFileName, is opened with "x"; both catch FileExistsError
get_license_file ==
    /\ pc = "setup_license" /\ setup.todo # <<>>
    /\ UNCHANGED headers
    /\ LET name == Head(setup.todo)
       IN  /\ Get("GET license url", name)
           /\ \E response \in SetupResponses :
                /\ last_response' = response
                /\ IF response.body = "ConnectionError"
                   THEN /\ Uncaught /\ Printed({"Traceback: ConnectionError"})
                        /\ UNCHANGED <<tpl, setup>>
                   ELSE IF setup_success(response.status)
                   THEN IF response.body = "json expected"
                        THEN /\ tpl' = [tpl EXCEPT !.licenses = TRUE,
                                                   !.catalog = @ \cup {license_folder(name)}]
                             /\ setup' = [setup EXCEPT !.todo = Tail(@)]
                             /\ Goto("setup_license")
                             /\ Printed({IF license_folder(name) \in tpl.catalog
                                         THEN "license file already exists."
                                         ELSE "license file created."})
                        ELSE /\ Uncaught
                             /\ Printed({"Traceback: JSONDecodeError or KeyError"})
                             /\ UNCHANGED <<tpl, setup>>
                   ELSE /\ setup_request_failed(response)
                        /\ UNCHANGED <<tpl, setup>>
    /\ SetupFrame

\* the end of main() of create_templates.py
create_templates_main ==
    /\ pc = "setup_license" /\ setup.todo = <<>>
    /\ Return
    /\ Printed({"Template files created."})
    /\ UNCHANGED <<tpl, headers, requests, last_response, setup>>
    /\ SetupFrame

NextSetup ==
    \/ create_program_directory \/ get_gitigore_file \/ get_license_urls
    \/ get_license_file \/ create_templates_main

SpecSetup == InitSetup /\ [][NextSetup]_vars

\* ------------------------------------------------------------------------
\* manage_tokens.py and build_headers on one keyring
\* ------------------------------------------------------------------------

\* consts.KEYRING_SYSTEM: f"{PROGRAM}:{GH_API_URL}"
KEYRING_SYSTEM == "pyghusk:https://api.github.com"

\* the usernames the programs are called with
TokenUsers == {"user", "other"}

\* what is typed at the token prompt of store_token
TokenInputs == {"tok", "tk2"}

\* the entries of the keyring: (service, username)
KeyringKeys == {KEYRING_SYSTEM, "pyghusk"} \X TokenUsers

\* a key made of the program name alone
store_key_program(username) == <<"pyghusk", username>>

\* the key of keyring.set_password in store_token
store_key(username) == <<KEYRING_SYSTEM, username>>

\* the key of keyring.delete_password in delete_token
delete_key(username) == <<KEYRING_SYSTEM, username>>

\* the key of keyring.get_password in build_headers
lookup_key(username) == <<KEYRING_SYSTEM, username>>

\* what the token programs leave alone
TokenFrame ==
    UNCHANGED <<env, inputs, disk, interpreter, git, repo_final_name, requests,
                remote_repo, server_repo, last_response, pc, logging_on,
                rejects, ran, failed, term, exitStatus, name_arg, name_results,
                setup>>

\* A system with or without a credential manager and nothing stored.
\* held[u] is the token the last successful store_token(u) stored, None
\* after a successful delete_token(u); last is the last call.
InitTokens ==
    /\ tokens = [backend |-> TRUE,
                 ring |-> [k \in KeyringKeys |-> None],
                 held |-> [u \in TokenUsers |-> None],
                 last |-> [op |-> "none", user |-> None, outcome |-> "none"]]
          \/ tokens = [backend |-> FALSE,
                 ring |-> [k \in KeyringKeys |-> None],
                 held |-> [u \in TokenUsers |-> None],
                 last |-> [op |-> "none", user |-> None, outcome |-> "none"]]
    /\ headers = NoHeaders /\ log = {} /\ out = {}
    /\ impl = "modules" /\ USERNAME = "user" /\ GH_PAGES = FALSE
    /\ tpl = TemplatesComplete /\ folder_exists = TRUE
    /\ files0 = NoFiles /\ dirs0 = {} /\ files = NoFiles /\ dirs = {}
    /\ run = 1 /\ pc = "end" /\ logging_on = FALSE
    /\ repo_name = NoText /\ repo_description = None
    /\ project_license = NoText /\ answer = <<None>> /\ rejects = 0
    /\ interpreter = NoText /\ git = NoGit
    /\ repo_final_name = NoText /\ requests = <<>> /\ remote_repo = NoText
    /\ server_repo = NoText /\ last_response = NoResponse
    /\ ran = <<>> /\ failed = "none" /\ term = "running" /\ exitStatus = -1
    /\ name_arg = NoText /\ name_results = <<>> /\ setup = NoSetup

\* check_credential_manager of manage_tokens.main: InitError ends the program
no_credential_manager(op, username) ==
    /\ tokens' = [tokens EXCEPT
                     !.last = [op |-> op, user |-> username, outcome |-> "InitError"]]
    /\ Printed({"Error initialising the keyring"})

\* python manage_tokens.py username
store_token ==
    /\ \E username \in TokenUsers, token \in TokenInputs,
          outcome \in {"ok", "PasswordSetError"} :
         IF ~tokens.backend
         THEN no_credential_manager("store", username)
         ELSE IF outcome = "ok"
         THEN /\ tokens' = [tokens EXCEPT
                    !.ring[store_key(username)] = token,
                    !.held[username] = token,
                    !.last = [op |-> "store", user |-> username, outcome |-> "ok"]]
              /\ Printed({"OAuth Token stored."})
         ELSE /\ tokens' = [tokens EXCEPT
                    !.last = [op |-> "store", user |-> username,
                              outcome |-> "PasswordSetError"]]
              /\ Printed({"Error storing OAuth Token"})
    /\ UNCHANGED <<headers, log>>
    /\ TokenFrame

\* python manage_tokens.py --delete username: keyring.delete_password raises
\* PasswordDeleteError when the entry is not there
delete_token ==
    /\ \E username \in TokenUsers :
         IF ~tokens.backend
         THEN no_credential_manager("delete", username)
         ELSE IF tokens.ring[delete_key(username)] # None
         THEN /\ tokens' = [tokens EXCEPT
                    !.ring[delete_key(username)] = None,
                    !.held[username] = None,
                    !.last = [op |-> "delete", user |-> username, outcome |-> "ok"]]
              /\ Printed({"OAuth Token deleted."})
         ELSE /\ tokens' = [tokens EXCEPT
                    !.last = [op |-> "delete", user |-> username,
                              outcome |-> "PasswordDeleteError"]]
              /\ Printed({"Error deleting OAuth Token: No token was found"})
    /\ UNCHANGED <<headers, log>>
    /\ TokenFrame

\* build_headers(username) on this keyring, its password loop run until the
\* two entries match
call_build_headers ==
    /\ \E username \in TokenUsers, password \in PasswordInputs :
         LET token == IF tokens.backend THEN tokens.ring[lookup_key(username)]
                      ELSE None
             warn  == IF tokens.backend THEN {}
                      ELSE {"WARNING: No credential manager was found in the system."}
         IN  /\ headers' = build_headers_result(username, token,
                                                IF token = None THEN password ELSE None)
             /\ IF token = None
                THEN /\ Logged(warn \cup {"DEBUG: Asking for credentials."})
                     /\ Printed({"Please enter your GitHub password: "})
                ELSE /\ Logged({"DEBUG: OAuth token retrieved"}
                               \cup token_debug_values(token))
                     /\ Printed({})
             /\ tokens' = [tokens EXCEPT
                    !.last = [op |-> "build_headers", user |-> username,
                              outcome |-> "ok"]]
    /\ TokenFrame

NextTokens == store_token \/ delete_token \/ call_build_headers

SpecTokens == InitTokens /\ [][NextTokens]_vars

\* ------------------------------------------------------------------------
\* Vocabulary of the properties
\* ------------------------------------------------------------------------

Range(seq) == { seq[i] : i \in DOMAIN seq }

\* the steps of the pipeline in the order of main()
StepOrder ==
    <<"readme", "templates", "pages_files", "environment", "linter",
      "interpreter", "settings", "git_init", "git_add", "git_commit", "auth",
      "create_repo", "add_origin", "push", "enable_pages", "build_pages">>

\* the steps that run only with the pages toggle on
PagesSteps == {"pages_files", "enable_pages", "build_pages"}

IsExpected(step) == GH_PAGES \/ step \notin PagesSteps

\* the steps a run goes through when none fails
ExpectedSteps == SelectSeq(StepOrder, IsExpected)

\* the component of the design a step belongs to, by its number there:
\* 3 Scaffold Writer, 4 Environment Provisioner, 5 Version Control Driver,
\* 6 Remote Repository Manager
ComponentOf(step) ==
    CASE step \in {"readme", "templates", "pages_files", "settings"} -> 3
      [] step \in {"environment", "linter", "interpreter"} -> 4
      [] step \in {"git_init", "git_add", "git_commit", "add_origin", "push"} -> 5
      [] step \in {"create_repo", "enable_pages", "build_pages"} -> 6

ComponentSteps == Range(StepOrder) \ {"auth"}

Ended   == term # "running"
Done    == term = "return"
Aborted == term \in {"exit", "exception"}

\* nothing of the pipeline happened: no step started, the project folder is
\* as it was, no command ran, no credential was asked for, no request left
Untouched ==
    /\ ran = <<>>
    /\ files = files0 /\ dirs = dirs0
    /\ interpreter = NoText /\ git = NoGit
    /\ headers = NoHeaders /\ requests = <<>> /\ server_repo = NoText

Answered == answer # <<None>>

Affirmative(typed) == Lower(typed) \in { <<"y">>, <<"y","e","s">> }

\* ------------------------------------------------------------------------
\* Properties
\* ------------------------------------------------------------------------

\* C1: fail-fast.  Once a step has failed, no later step runs: no step is
\* started, and the project folder, the local repository, the headers and the
\* requests sent stay as the failed step left them.
C1_FailFast ==
    [][failed # "none" => (ran' = ran /\ disk' = disk /\ world' = world)]_vars

\* a git commit that failed ended the run
C1_Witness ==
    failed = "git_commit" /\ term = "exit" /\ ran[Len(ran)] = "git_commit"

\* C2: a run that a step failure ended has an exit status other than the one
\* of a run that reached Done, which is 0 (main() returned).
C2_FailureStatusDiffers ==
    (Ended /\ failed # "none") => exitStatus # 0

\* C3: the confirmation gate.  Nothing of the pipeline happens before the
\* answer; something happens only after an answer that lowercased is "y" or
\* "yes"; any other answer ends the run by exit() with nothing done.
C3_ConfirmationGate ==
    /\ ~Answered => Untouched
    /\ ~Untouched => Affirmative(answer)
    /\ (Answered /\ ~Affirmative(answer)) => (term = "exit" /\ Untouched)

\* "Yes" was typed and the pipeline started
C3_Witness ==
    answer = <<"Y","e","s">> /\ ran # <<>> /\ files # files0

\* C4 as stated: the steps started so far are sorted by component, Scaffold
\* Writer before Environment Provisioner before Version Control Driver before
\* Remote Repository Manager.
C4_StrictComponentOrder ==
    \A i, j \in DOMAIN ran :
        (i < j /\ ran[i] \in ComponentSteps /\ ran[j] \in ComponentSteps)
            => ComponentOf(ran[i]) <= ComponentOf(ran[j])

\* C4 as amended: the steps run one after the other in the fixed order of
\* StepOrder (the pages steps only with the toggle on), none left out; in that
\* order the editor settings come after the environment steps, and remote
\* add and push after the creation of the repository.
C4_FixedStepOrder ==
    /\ Len(ran) <= Len(ExpectedSteps)
    /\ \A i \in DOMAIN ran : ran[i] = ExpectedSteps[i]

\* a run with the pages toggle on that went through all the steps
C4_Witness ==
    Done /\ GH_PAGES /\ ran = StepOrder

\* C5: the git commands are started in the order init, add -A, commit,
\* remote add origin, push, each only after the one before it succeeded; push
\* is not started in a run where commit or remote add failed.
VcsOrder == <<"git_init", "git_add", "git_commit", "add_origin", "push">>

IsVcs(step) == step \in Range(VcsOrder)

C5_VersionControlOrder ==
    LET vcs == SelectSeq(ran, IsVcs)
    IN  /\ Len(vcs) <= Len(VcsOrder)
        /\ \A i \in DOMAIN vcs : vcs[i] = VcsOrder[i]
        /\ "git_add" \in Range(ran) => git.init
        /\ "git_commit" \in Range(ran) => git.staged
        /\ "add_origin" \in Range(ran) => git.commits > 0
        /\ "push" \in Range(ran) => git.origin # NoText
        /\ failed \in {"git_commit", "add_origin"} => "push" \notin Range(ran)

\* the push ran and succeeded
C5_Witness ==
    git.pushed /\ ran[Len(ran)] = "push"

\* C6: once the repository is created, the origin url, the pages-enable
\* endpoint and the url of the summary carry the full name the server
\* returned.
C6_CanonicalNameUsed ==
    /\ git.origin # NoText => git.origin = GitHubUrl(server_repo) \o <<".git">>
    /\ \A i \in DOMAIN requests :
          requests[i].endpoint = "POST /repos/{}/pages"
              => requests[i].repo = server_repo
    /\ remote_repo # NoText => remote_repo = GitHubUrl(server_repo)
    /\ Done => remote_repo = GitHubUrl(server_repo)

\* a finished run in which the server returned another name than requested
C6_Witness ==
    /\ Done /\ GH_PAGES
    /\ server_repo # <<USERNAME, "/">> \o repo_name
    /\ git.origin # NoText

\* C7: a readme.md that exists keeps its content, the skip is logged and
\* printed and the run goes on with the template copy; a missing readme.md is
\* created with the generated text.
C7_ReadmeOnlyIfAbsent ==
    /\ files0["readme.md"] # Absent => files["readme.md"] = files0["readme.md"]
    /\ (files0["readme.md"] = Absent /\ ran # <<>>)
          => files["readme.md"].kind \in {"readme of main", "readme of build_readme"}
    /\ pc = "templates" =>
          /\ ran = <<"readme">> /\ failed = "none" /\ ~Ended
          /\ files0["readme.md"] # Absent <=>
                /\ "INFO: A readme.md file was found. Skipping step." \in log
                /\ "A readme.md file was found. Skipping step." \in out

\* the readme step skipped an existing readme.md and the run goes on
C7_Witness ==
    pc = "templates" /\ files0["readme.md"] # Absent

\* C8: after a template copy that succeeded, .gitignore and the license file
\* hold the text of their templates, whatever they held before.
TemplatesCopied == "templates" \in Range(ran) /\ failed # "templates"

C8_TemplatesOverwrite ==
    TemplatesCopied =>
        /\ files[".gitignore"] = TemplateIgnore
        /\ files[LicenseFileName(project_license)] = TemplateLicense(project_license)

\* the copy replaced a .gitignore and a LICENSE of the user
C8_Witness ==
    /\ pc = "pages_files" /\ project_license = MIT
    /\ files0[".gitignore"] = UserContent(".gitignore")
    /\ files0["LICENSE"] = UserContent("LICENSE")

\* C9: docs/_config.yml is written only when it is missing; one that exists
\* keeps its content, the skip is logged and printed and the run goes on.
C9_ConfigOnlyIfAbsent ==
    /\ files0["docs/_config.yml"] # Absent
          => files["docs/_config.yml"] = files0["docs/_config.yml"]
    /\ files["docs/_config.yml"] # files0["docs/_config.yml"]
          => "pages_files" \in Range(ran)
    /\ (GH_PAGES /\ pc = "environment") =>
          /\ failed = "none" /\ ~Ended
          /\ files["docs/_config.yml"] # Absent
          /\ files0["docs/_config.yml"] # Absent <=>
                /\ "A _config.yml file was found. Skipping step." \in log
                /\ "A _config.yml file was found. Skipping step." \in out

\* the pages step skipped an existing _config.yml and the run goes on
C9_Witness ==
    GH_PAGES /\ pc = "environment" /\ files0["docs/_config.yml"] # Absent

\* C10: after the pages step, docs/index.md has the content of readme.md.
C10_IndexIsReadme ==
    (GH_PAGES /\ pc = "environment") => files["docs/index.md"] = files["readme.md"]

\* C11: after an editor-settings step that succeeded, settings.json holds
\* the enabled flag of the configured linter and the interpreter path got in
\* this run, which is the output of pipenv --py without the whitespace
\* around it, whatever the file held before.
C11_SettingsOverwritten ==
    ("settings" \in Range(ran) /\ failed # "settings") =>
        /\ files[".vscode/settings.json"] = settings_content(LINTER, interpreter)
        /\ interpreter # NoText
        /\ ~IsSpace(interpreter[1]) /\ ~IsSpace(interpreter[Len(interpreter)])
        /\ \E output \in PipenvPyOutputs : \E i, j \in 1..Len(output) :
              interpreter = SubSeq(output, i, j)

\* the step replaced a settings.json the user had
C11_Witness ==
    /\ pc = "git_init"
    /\ files0[".vscode/settings.json"] = UserContent(".vscode/settings.json")
    /\ files[".vscode/settings.json"] = settings_content(LINTER, interpreter)

\* C12: in a project folder where the file-writing steps already ran
\* (readme.md, the docs folder with its files and the .vscode folder with its
\* file are there) the readme, pages-file and editor-settings steps do not
\* fail.
RerunFolder ==
    /\ dirs0 = DirNames
    /\ \A f \in {"readme.md", "docs/index.md", "docs/_config.yml",
                 ".vscode/settings.json"} : files0[f] # Absent

C12_RerunSafe ==
    RerunFolder => failed \notin {"readme", "pages_files", "settings"}

\* C13: an http step takes the success branch exactly when the status of
\* the response is in [200,300); with any other status it reports the
\* failure (critical log entry and printed error) and the run ends.
HttpSteps == {"create_repo", "enable_pages", "build_pages"}

LastStep == IF ran = <<>> THEN "none" ELSE ran[Len(ran)]

\* the last step sent a request and got a response
JustAnswered ==
    LastStep \in HttpSteps /\ last_response.body \notin {"none", "ConnectionError"}

InBand(status) == 200 <= status /\ status < 300

C13_HttpClassification ==
    JustAnswered =>
        IF InBand(last_response.status)
        THEN /\ "API request failed" \notin out
             /\ "CRITICAL: API request failed" \notin log
             /\ (LastStep = "create_repo" /\ last_response.body # "json full_name")
                   \/ (failed = "none" /\ ~Aborted)
        ELSE /\ failed = LastStep /\ Aborted
             /\ "API request failed" \in out
             /\ "CRITICAL: API request failed" \in log

\* the pages-enable request got 299 and the run goes on
C13_Witness ==
    /\ JustAnswered /\ LastStep = "enable_pages"
    /\ last_response.status = 299 /\ pc = "build_pages"

\* C14: a response outside the success band whose body is no json or has
\* no message field still ends the run the normal way: the raw response is
\* logged at debug level, "Cancelling..." is printed and exit() is reached.
C14_UnparsableBodyCancels ==
    (/\ JustAnswered /\ ~InBand(last_response.status)
     /\ last_response.body \in {"json other", "text"})
        => /\ term = "exit"
           /\ "Cancelling..." \in out
           /\ "DEBUG: raw response" \in log

\* C15: a run that a step failure ended was ended by that step, with a log
\* entry and the printed cancellation, never by an exception nobody caught.
C15_NoUnconvertedFailure ==
    failed # "none" => (term = "exit" /\ log # {} /\ "Cancelling..." \in out)

\* C16: validate_name applied to its own result returns that result.
C16_ValidateNameIdempotent ==
    \A i \in 2..Len(name_results) : name_results[i] = name_results[1]

\* both calls made, on a string the first call changed
C16_Witness ==
    /\ Len(name_results) = 2
    /\ name_results[1] # name_arg /\ name_results[1] # NoText

\* C17: what validate_name returns is made of a-z and 0-9 in groups
\* separated by single hyphens, with no hyphen at either end.
IsAlnumLower(c) == IsLower(c) \/ c \in Digits

WellShaped(name) ==
    /\ \A i \in 1..Len(name) : IsAlnumLower(name[i]) \/ name[i] = "-"
    /\ name # NoText => (name[1] # "-" /\ name[Len(name)] # "-")
    /\ \A i \in 1..(Len(name) - 1) : ~(name[i] = "-" /\ name[i + 1] = "-")

C17_NameShape ==
    \A i \in 1..Len(name_results) : WellShaped(name_results[i])

\* C18: the name that leaves the name stage is not empty; a candidate that
\* normalizes to the empty string is refused, and a run that ended without a
\* name did no step and sent no request.
NameStage == {"import", "trap", "logging", "folder", "template", "name", "name_prompt"}

C18_NameNeverEmpty ==
    /\ pc \notin NameStage \cup {"end"} => repo_name # NoText
    /\ (ran # <<>> \/ Answered) => repo_name # NoText
    /\ repo_name = NoText => (ran = <<>> /\ requests = <<>>)
    /\ \A i \in DOMAIN requests :
          requests[i].endpoint = "POST /user/repos" => requests[i].repo # NoText

\* a --name that normalizes to nothing was refused
C18_Witness ==
    /\ term = "exit" /\ repo_name = NoText
    /\ "Repository name can't be empty." \in out

\* C19: once input collection met an entry it refuses (an empty name or an
\* unknown license at the prompt) or holds a license that is not in the
\* catalog, the process has ended.
C19_InputErrorFatal ==
    (\/ pc \in {"name_prompt", "license_prompt"} /\ rejects > 0
     \/ pc = "confirm" /\ project_license \notin LICENSES)
        => Ended

\* C20: the license that left input collection is in the catalog.
C20_LicenseInCatalog ==
    project_license # NoText => project_license \in LICENSES

\* C21: with a project folder that does not exist the run gets no further
\* than the folder check: no name, description or license is asked for, the
\* confirmation is not reached, no step runs; the folder check logs a critical
\* error, prints it and ends the run.
C21_FolderMustExist ==
    ~folder_exists =>
        /\ pc \in {"import", "trap", "logging", "folder", "end"}
        /\ repo_name = NoText /\ repo_description = None
        /\ project_license = NoText /\ ~Answered /\ rejects = 0
        /\ Untouched
        /\ (Ended /\ logging_on) =>
              /\ term = "exit"
              /\ "CRITICAL: directory doesn't exist" \in log
              /\ "Error: directory doesn't exist" \in out

\* the folder check ended a run
C21_Witness ==
    ~folder_exists /\ logging_on /\ term = "exit"

\* C22: the warning about a folder that is not empty is shown exactly when
\* the folder has an entry, file or sub-folder; it does not stop the run: the
\* confirmation is asked and a yes starts the pipeline.
HasEntry == dirs0 # {} \/ \E f \in FileNames : files0[f] # Absent

\* the confirmation was answered and nothing ran since
JustConfirmed == Answered /\ ran = <<>>

C22_EmptyFolderCheck ==
    /\ JustConfirmed =>
          ("WARNING: project folder is not empty!!" \in out <=> HasEntry)
    /\ (JustConfirmed /\ Affirmative(answer)) => (pc = "readme" /\ ~Ended)

\* a folder whose only entry is an empty sub-folder got the warning
C22_Witness ==
    /\ JustConfirmed /\ pc = "readme"
    /\ dirs0 = {"docs"} /\ files0 = NoFiles
    /\ "WARNING: project folder is not empty!!" \in out

\* C23: the credential is asked for (store read, password prompt, headers
\* built) only in the step that follows a git commit that succeeded and
\* comes right before the creation request; a run that a scaffold,
\* environment or local git step ended never asked for it.
LocalSteps ==
    {"readme", "templates", "pages_files", "environment", "linter",
     "interpreter", "settings", "git_init", "git_add", "git_commit"}

CredentialRequested ==
    "auth" \in Range(ran) \/ pc = "password" \/ headers # NoHeaders

C23_LazyCredentials ==
    /\ CredentialRequested =>
          ("auth" \in Range(ran) /\ git.commits > 0 /\ failed \notin LocalSteps)
    /\ \A i \in DOMAIN ran :
          /\ ran[i] = "auth" => (i > 1 /\ ran[i - 1] = "git_commit")
          /\ ran[i] = "create_repo" => (i > 1 /\ ran[i - 1] = "auth")
    /\ requests # <<>> => headers # NoHeaders
    /\ failed \in LocalSteps => ~CredentialRequested

\* the commit failed and no credential was asked for
C23_Witness ==
    failed = "git_commit" /\ Ended /\ ~CredentialRequested

\* C24: a token found in the credential store gives the scheme "token" with
\* that token and no password prompt; without one the prompt is repeated
\* while the two entries differ and the scheme is "Basic" with the base64 of
\* username:password; the User-Agent names the tool and its version.
C24_BuildHeaders ==
    /\ headers # NoHeaders =>
          /\ headers.agent = (IF impl = "modules" THEN "username using pyghusk/0.1.0"
                              ELSE "USERNAME using pyghusk/0.0.1")
          /\ \/ /\ headers.scheme = "token" /\ impl = "modules"
                /\ \E t \in StoredTokens : headers.credential = <<t>>
             \/ /\ headers.scheme = "Basic"
                /\ \E p \in PasswordInputs \cup StoredTokens :
                      headers.credential = <<"base64", USERNAME, ":", p>>
    /\ pc = "password" =>
          (headers = NoHeaders /\ "DEBUG: OAuth token retrieved" \notin log)
    /\ (pc = "password" /\ rejects > 0) =>
          " - Error: passwords do not match." \in out
    /\ (impl = "modules" /\ pc = "create_repo") =>
          IF "DEBUG: OAuth token retrieved" \in log
          THEN headers.scheme = "token"
          ELSE headers.scheme = "Basic" /\ "DEBUG: Asking for credentials." \in log

\* build_headers found a token
C24_Witness ==
    impl = "modules" /\ pc = "create_repo" /\ headers.scheme = "token"

\* C25: the password or token of the run is in no log entry, no printed
\* line and no file of the project folder; it is in the Authorization header
\* the requests are sent with.
Secret ==
    IF headers = NoHeaders THEN None
    ELSE IF headers.scheme = "token" THEN headers.credential[1]
    ELSE headers.credential[4]

HoldsSecret(content) ==
    \/ content.desc = Secret
    \/ \E i \in DOMAIN content.name : content.name[i] = Secret
    \/ \E i \in DOMAIN content.lic : content.lic[i] = Secret

C25_SecretNotPersisted ==
    headers # NoHeaders =>
        /\ Secret \notin log /\ Secret \notin out
        /\ \A f \in FileNames : ~HoldsSecret(files[f])
        /\ \A i \in DOMAIN requests : requests[i].scheme = headers.scheme

\* a finished run that used a stored token
C25_Witness ==
    Done /\ headers.scheme = "token" /\ Secret \in StoredTokens

\* C26: with the pages toggle off no docs folder is copied, no pages file
\* is written, no pages request is sent and no pages step runs; with it on
\* the enable request is sent only after a push that succeeded, and the
\* rebuild request only right after an enable request that succeeded.
EnablePages == "POST /repos/{}/pages"
BuildPages  == "POST /repos/{}/pages/builds"

C26_PagesOptional ==
    /\ ~GH_PAGES =>
          /\ Range(ran) \cap PagesSteps = {}
          /\ "docs" \in dirs => "docs" \in dirs0
          /\ files["docs/index.md"] = files0["docs/index.md"]
          /\ files["docs/_config.yml"] = files0["docs/_config.yml"]
          /\ \A i \in DOMAIN requests :
                requests[i].endpoint \notin {EnablePages, BuildPages}
    /\ \A i \in DOMAIN requests :
          /\ requests[i].endpoint = EnablePages => git.pushed
          /\ requests[i].endpoint = BuildPages =>
                /\ "enable_pages" \in Range(ran) /\ failed # "enable_pages"
                /\ i > 1 /\ requests[i - 1].endpoint = EnablePages

\* a run without pages reached the summary
C26_Witness ==
    Done /\ ~GH_PAGES /\ Len(requests) = 1 /\ "docs" \notin dirs

\* every step of the run was started and none failed
AllSucceeded == failed = "none" /\ ran = ExpectedSteps

DeclinedEnd == Answered /\ ~Affirmative(answer)

InputErrorEnd ==
    \/ "Error: directory doesn't exist" \in out
    \/ "Repository name can't be empty." \in out

\* C27, as stated: every run ends and stays ended; Done only when every step
\* succeeded; Aborted only by a declined confirmation, an input error or a
\* step failure.
C27_DoneOrAborted ==
    /\ <>Ended
    /\ [](Ended => pc = "end")
    /\ [](Done => AllSucceeded)
    /\ [](Aborted => (DeclinedEnd \/ InputErrorEnd \/ failed # "none"))

\* a run ended before any input is read by an installation that is not set
\* up: USERNAME left at None (the trap of main()), the template directory or
\* its licenses folder missing
SetupErrorEnd ==
    /\ ~Answered /\ repo_name = NoText
    /\ \/ "Before using the script, please configure" \in out
       \/ "Traceback: FileNotFoundError" \in out
       \/ "Error: template directory doesn't exist" \in out

\* C27, amended: every run ends and stays ended; Done only when every step
\* succeeded; Aborted only by an installation that is not set up, a declined
\* confirmation, an input error or a step failure.
C27_DoneOrAbortedOrSetup ==
    /\ <>Ended
    /\ [](Ended => pc = "end")
    /\ [](Done => AllSucceeded)
    /\ [](Aborted => (SetupErrorEnd \/ DeclinedEnd \/ InputErrorEnd \/ failed # "none"))

\* a run that the USERNAME trap ended
C27_Witness ==
    /\ Aborted /\ failed = "none" /\ ~DeclinedEnd /\ ~InputErrorEnd
    /\ USERNAME = None /\ term = "exit"

\* ------------------------------------------------------------------------
\* C28: no rollback
\* ------------------------------------------------------------------------

\* the files of the project folder a step writes itself
OwnFiles(step) ==
    CASE step = "readme"      -> {"readme.md"}
      [] step = "templates"   -> {".gitignore", "LICENSE", "UNLICENSE"}
      [] step = "pages_files" -> {"docs/index.md", "docs/_config.yml"}
      [] step = "settings"    -> {".vscode/settings.json"}
      [] OTHER                -> {}

\* the request a step sends itself
OwnEndpoint(step) ==
    CASE step = "create_repo"  -> "POST /user/repos"
      [] step = "enable_pages" -> "POST /repos/{}/pages"
      [] step = "build_pages"  -> "POST /repos/{}/pages/builds"
      [] OTHER                 -> "none"

\* the statements in which a step fails and the run is cancelled
Failing == failed = "none" /\ failed' # "none"

\* what the earlier steps left is as it was when the failing step started:
\* no file or folder is deleted, no file of another step is rewritten, the
\* local repository, its commit and its remote are kept, the repository the
\* server created is kept, and no request is sent but the step's own
LeftAsIs ==
    /\ \A f \in FileNames : files[f] # Absent => files'[f] # Absent
    /\ \A f \in FileNames \ OwnFiles(failed') : files'[f] = files[f]
    /\ dirs \subseteq dirs'
    /\ git' = git
    /\ server_repo # NoText => server_repo' = server_repo
    /\ repo_final_name # NoText => repo_final_name' = repo_final_name
    /\ Len(requests') \in {Len(requests), Len(requests) + 1}
    /\ SubSeq(requests', 1, Len(requests)) = requests
    /\ Len(requests') > Len(requests)
         => requests'[Len(requests')].endpoint = OwnEndpoint(failed')

\* C28: when a step fails, the files written, the local repository and its
\* commit, the created remote repository and the added remote are left as
\* they were when the step started; cancelling deletes nothing, reverts
\* nothing and sends no compensating request.
C28_NoRollback == [][Failing => LeftAsIs]_vars

\* a run cancelled by a failed push, with the readme, the commit, the remote
\* and the created repository still there
C28_Witness ==
    /\ failed = "push" /\ pc = "end"
    /\ files["readme.md"] # Absent
    /\ git.commits > 0 /\ git.origin # NoText /\ ~git.pushed
    /\ server_repo # NoText

\* ------------------------------------------------------------------------
\* C29: environment provisioning
\* ------------------------------------------------------------------------

\* the step was started and did not fail
Succeeded(step) == step \in Range(ran) /\ failed # step

\* the environment steps started so far
EnvironmentRan ==
    SelectSeq(ran, LAMBDA step : step \in {"environment", "linter", "interpreter"})

SettingsFile == ".vscode/settings.json"

\* C29: the environment steps run in the order environment, linter,
\* interpreter, each started only when the one before succeeded; the
\* settings step is started, and the settings file written, only after the
\* interpreter path was resolved successfully.
C29_EnvironmentSequence ==
    /\ EnvironmentRan \in { <<>>, <<"environment">>, <<"environment", "linter">>,
                            <<"environment", "linter", "interpreter">> }
    /\ "linter" \in Range(ran) => Succeeded("environment")
    /\ "interpreter" \in Range(ran) => Succeeded("linter")
    /\ "settings" \in Range(ran) => Succeeded("interpreter") /\ interpreter # NoText
    /\ files[SettingsFile] # files0[SettingsFile] => Succeeded("interpreter")
    /\ ~Succeeded("interpreter") => interpreter = NoText

\* a run cancelled by the linter installation: the interpreter is not asked
\* for and the settings file is as it was
C29_Witness ==
    /\ failed = "linter" /\ pc = "end"
    /\ Succeeded("environment")
    /\ "interpreter" \notin Range(ran) /\ "settings" \notin Range(ran)
    /\ files[SettingsFile] = files0[SettingsFile]

\* a run that wrote the settings file after the three steps succeeded
C29_WitnessWritten ==
    /\ files[SettingsFile] # files0[SettingsFile]
    /\ Succeeded("environment") /\ Succeeded("linter") /\ Succeeded("interpreter")

\* ------------------------------------------------------------------------
\* C30: the Accept header
\* ------------------------------------------------------------------------

\* C30: the Accept override is per call: once the headers mapping is built,
\* a step leaves it as it received it, so that a request that sets no media
\* type of its own goes out with application/vnd.github.v3+json.
C30_AcceptPerCall ==
    [][headers # NoHeaders => headers' = headers /\ headers.accept = AcceptV3]_vars

\* ------------------------------------------------------------------------
\* C31: the second run and the creation request
\* ------------------------------------------------------------------------

CreationRequests ==
    SelectSeq(requests, LAMBDA request : request.endpoint = "POST /user/repos")

InRerun == run > 1

\* the re-run was ended by what the first run left: the .vscode folder
\* ([Step-7] of main()) or a tree with nothing to commit
StoppedByLeftovers ==
    \/ failed = "settings" /\ term = "exception"
    \/ failed = "git_commit" /\ NothingToCommit

\* the re-run was ended by a command or a copy that failed on its own
StoppedByMisfortune == failed # "none" /\ ~StoppedByLeftovers

C31_WitnessSecondRequest ==
    /\ InRerun /\ "create_repo" \in Range(ran) /\ Len(CreationRequests) = 2

\* ------------------------------------------------------------------------
\* C33: the template directory check
\* ------------------------------------------------------------------------

\* C33: without the template directory a run ends with the critical error
\* "directory ... doesn't exist" and the cancellation message, before any
\* prompt and any step.
C33_TemplateDirError ==
    (~tpl.exists /\ pc = "end")
        => /\ "Error: template directory doesn't exist" \in out
           /\ "Cancelling..." \in out
           /\ ran = <<>> /\ ~Answered

\* ------------------------------------------------------------------------
\* C37: the username trap
\* ------------------------------------------------------------------------

\* C37: while USERNAME is None a run ends before logging is started, before
\* any prompt and before any step.
C37_UsernameTrap ==
    USERNAME = None
        => /\ pc \in {"import", "trap", "end"}
           /\ ~logging_on
           /\ inputs = <<NoText, None, NoText, <<None>> >>
           /\ rejects = 0
           /\ ran = <<>> /\ files = files0 /\ dirs = dirs0
           /\ git = NoGit /\ requests = <<>>
           /\ pc = "end" => term \in {"exit", "exception"}

\* the trap ended the run
C37_Witness ==
    /\ USERNAME = None /\ pc = "end" /\ term = "exit" /\ exitStatus = 0
    /\ "Before using the script, please configure" \in out
    /\ ~logging_on

\* ------------------------------------------------------------------------
\* C34: the license prompt
\* ------------------------------------------------------------------------

\* one turn of the license prompt that ends with license lic chosen
PromptAccepts(lic) ==
    /\ main_license_prompt \/ get_license_prompt
    /\ project_license' = lic

\* C34: at the license prompt, every license of the catalog can be chosen:
\* some entry makes the loop end with that license.
C34_EveryLicenseSelectable ==
    pc = "license_prompt" => \A lic \in LICENSES : ENABLED PromptAccepts(lic)

\* ------------------------------------------------------------------------
\* C35: the name of the license file
\* ------------------------------------------------------------------------

\* the copy of the license file raised FileNotFoundError: the folder and the
\* .gitignore template were there and the copy step failed
LicenseCopyFailed ==
    /\ failed = "templates"
    /\ tpl.ignore /\ (tpl.docs \/ ~GH_PAGES \/ "docs" \in dirs0)

\* C35: the copy step looks the license file up under the name the setup
\* utility stored it with, so that for every license of the catalog the copy
\* finds the file.
C35_LicenseFileFound ==
    project_license \in LICENSES => ~LicenseCopyFailed

\* ------------------------------------------------------------------------
\* C32: the setup utility
\* ------------------------------------------------------------------------

\* the utility ran to the end of its main()
SetupDone == pc = "end" /\ term = "return" /\ setup.fetched

Prompted == "Please enter your GitHub password: " \in out

\* C36: the keyring entry of a user is the token last stored for them and
\* not deleted since, so that a failed store or delete changes nothing;
\* build_headers(u) uses that token with the token scheme and does not
\* prompt, and without one prompts and uses the Basic scheme; a delete
\* without an entry reports the error.
C36_TokenStoreProtocol ==
    /\ \A u \in TokenUsers :
          tokens.ring[<<KEYRING_SYSTEM, u>>] = tokens.held[u]
    /\ \A k \in KeyringKeys : k[1] # KEYRING_SYSTEM => tokens.ring[k] = None
    /\ tokens.last.op = "build_headers"
          => IF tokens.held[tokens.last.user] # None
             THEN /\ headers.scheme = "token"
                  /\ headers.credential = <<tokens.held[tokens.last.user]>>
                  /\ ~Prompted
             ELSE /\ headers.scheme = "Basic"
                  /\ Prompted
    /\ (tokens.last.op = "delete" /\ tokens.last.outcome = "PasswordDeleteError")
          => /\ "Error deleting OAuth Token: No token was found" \in out
             /\ tokens.held[tokens.last.user] = None

\* a token stored for one user and used by build_headers for that user
C36_Witness ==
    /\ tokens.last = [op |-> "build_headers", user |-> "user", outcome |-> "ok"]
    /\ tokens.held["user"] = "tk2" /\ tokens.held["other"] = None
    /\ headers.scheme = "token" /\ headers.credential = <<"tk2">>

\* build_headers prompting after the token was deleted
C36_WitnessDeleted ==
    /\ tokens.last.op = "build_headers" /\ tokens.backend
    /\ tokens.held[tokens.last.user] = None
    /\ headers.scheme = "Basic" /\ Prompted

====
